---- MODULE Spec2Model ----
(***************************************************************************)
(* Model of bp-db-diagram: the schema extractor (parseSqlToGraph) and the  *)
(* orthogonal edge router (routeManhattanAStar / edgePaths).               *)
(*                                                                         *)
(* Text model.  A text is a sequence of lexemes; the concrete string it    *)
(* stands for is the lexemes joined by single spaces.  Every scanner loop  *)
(* and every regular expression of the extractor is evaluated on that      *)
(* concrete string, so a rule that needs white space between two lexemes   *)
(* finds it, and a rule that forbids it does not apply.                    *)
(*                                                                         *)
(* World coordinates are integers (pixels); the anchors of the routed      *)
(* scenarios are even, so the fallback midpoint (start.x+end.x)/2 is exact.*)
(***************************************************************************)
EXTENDS Integers, Sequences, FiniteSets, TLC

\* ------------------------------------------------------------------ bounds
MaxTables == 2
MaxItems == 3
MaxLits == 2
MaxLitLen == 2
MaxCalls == 3
MaxPts == 3
MaxBody == 4
MaxSteps == 4

\* --------------------------------------------------------------- utilities
UNDEF == "undefined"

Min(S) == CHOOSE m \in S : \A n \in S : m <= n
Max(S) == CHOOSE m \in S : \A n \in S : m >= n
Abs(v) == IF v < 0 THEN -v ELSE v
Range(f) == {f[i] : i \in DOMAIN f}
Last(s) == s[Len(s)]
Front(s) == SubSeq(s, 1, Len(s) - 1)

RECURSIVE Concat(_)
Concat(ss) == IF ss = <<>> THEN <<>> ELSE Head(ss) \o Concat(Tail(ss))

\* ------------------------------------------------------------ lexeme classes
\* one-character lexemes that are not word characters
Punct == {"(", ")", ",", ";", "'", "\"", " "}
\* schema-qualified names: [\w.]+ but not [\w]+
Dotted == {"public.b"}
\* lexemes of a single character (their last character is the lexeme)
SingleChar == Punct \cup {"a", "b", "c", "x"}

\* [\w]+ matches the whole lexeme
IsWord(t) == t \notin Punct /\ t \notin Dotted
\* [\w.]+ (and the name class [A-Za-z0-9_."\.]) matches the whole lexeme
IsName(t) == t \notin Punct
\* [a-zA-Z_]+ matches the whole lexeme
IsAlpha(t) == IsWord(t)

\* s.slice(0, -1) of one lexeme of more than one character
ChopTok(t) ==
  CASE t = "create" -> "creat"
    [] t = "table" -> "tabl"
    [] t = "public.b" -> "public."
    [] t = "uid" -> "ui"
    [] t = "int" -> "in"
    [] t = "primary" -> "primar"
    [] t = "key" -> "ke"
    [] t = "not" -> "no"
    [] t = "null" -> "nul"
    [] t = "references" -> "reference"
    [] t = "foreign" -> "foreig"
    [] t = "constraint" -> "constrain"
    [] t = "check" -> "chec"
    [] OTHER -> "chopped"

\* the text without its last character
ChopLast(s) ==
  IF s = <<>> THEN <<>>
  ELSE IF Last(s) \in SingleChar THEN Front(s)
  ELSE Front(s) \o <<ChopTok(Last(s))>>

\* ------------------------------------------------------- parseSqlToGraph.ts
unquoteIdent(t) == t

normalizeTableName(raw) ==
  IF raw = "public.b" THEN "b"
  ELSE IF raw = "public." THEN ""
  ELSE unquoteIdent(raw)

\* splitTopLevelComma: st = [i, parts, cur, depth, inSingle, inDouble]
RECURSIVE SplitScan(_, _)
SplitScan(body, st) ==
  IF st.i > Len(body) THEN st.parts \o <<st.cur>>
  ELSE
    LET ch == body[st.i]
        inSingle == IF ch = "'" /\ ~st.inDouble THEN ~st.inSingle ELSE st.inSingle
        inDouble == IF ch = "\"" /\ ~inSingle THEN ~st.inDouble ELSE st.inDouble
        free == ~inSingle /\ ~inDouble
        depth == IF free /\ ch = "(" THEN st.depth + 1
                 ELSE IF free /\ ch = ")" THEN Max({0, st.depth - 1})
                 ELSE st.depth
        cut == free /\ ch = "," /\ depth = 0
    IN SplitScan(body,
         [i |-> st.i + 1,
          parts |-> IF cut THEN st.parts \o <<st.cur>> ELSE st.parts,
          cur |-> IF cut THEN <<>> ELSE st.cur \o <<ch>>,
          depth |-> depth, inSingle |-> inSingle, inDouble |-> inDouble])

\* String.prototype.trim on a piece of text: white space is the lexeme " "
RECURSIVE trim(_)
trim(part) ==
  IF part = <<>> THEN <<>>
  ELSE IF Head(part) = " " THEN trim(Tail(part))
  ELSE IF Last(part) = " " THEN trim(Front(part))
  ELSE part

\* every comma cuts, whatever the depth and the quotes
splitTopLevelComma_EveryComma(body) ==
  LET RECURSIVE Cut(_, _, _)
      Cut(i, parts, cur) ==
        IF i > Len(body) THEN parts \o <<cur>>
        ELSE IF body[i] = "," THEN Cut(i + 1, parts \o <<cur>>, <<>>)
        ELSE Cut(i + 1, parts, cur \o <<body[i]>>)
      all == Cut(1, <<>>, <<>>)
  IN SelectSeq([j \in DOMAIN all |-> trim(all[j])], LAMBDA part : part # <<>>)

splitTopLevelComma(body) ==
  LET all == SplitScan(body,
               [i |-> 1, parts |-> <<>>, cur |-> <<>>, depth |-> 0,
                inSingle |-> FALSE, inDouble |-> FALSE])
  IN SelectSeq([j \in DOMAIN all |-> trim(all[j])], LAMBDA part : part # <<>>)

\* lower.indexOf('create table', i); 0 stands for -1
IndexOfCreateTable(s, i) ==
  LET hits == {j \in i..(Len(s) - 1) : s[j] = "create" /\ s[j + 1] = "table"}
  IN IF hits = {} THEN 0 ELSE Min(hits)

\* while (p < s.length && s[p] !== '(') p++
RECURSIVE SkipToParen(_, _)
SkipToParen(s, p) ==
  IF p <= Len(s) /\ s[p] # "(" THEN SkipToParen(s, p + 1) ELSE p

\* while (p < s.length && depth > 0) { ... p++ }
RECURSIVE ScanBody(_, _, _, _, _)
ScanBody(s, p, depth, inSingle, inDouble) ==
  IF ~(p <= Len(s) /\ depth > 0) THEN p
  ELSE
    LET ch == s[p] IN
    IF ch = "'" /\ ~inDouble THEN ScanBody(s, p + 1, depth, ~inSingle, inDouble)
    ELSE IF ch = "\"" /\ ~inSingle THEN ScanBody(s, p + 1, depth, inSingle, ~inDouble)
    ELSE IF ~inSingle /\ ~inDouble THEN
      ScanBody(s, p + 1,
               IF ch = "(" THEN depth + 1 ELSE IF ch = ")" THEN depth - 1 ELSE depth,
               inSingle, inDouble)
    ELSE ScanBody(s, p + 1, depth, inSingle, inDouble)

\* body = s.slice(bodyStart, p - 1): the scanned text without its last character
BlockBody(s, bodyStart, p) == ChopLast(SubSeq(s, bodyStart, p - 1))

RECURSIVE BlocksFrom(_, _)
BlocksFrom(s, i) ==
  IF i > Len(s) THEN <<>>
  ELSE
    LET idx == IndexOfCreateTable(s, i) IN
    IF idx = 0 THEN <<>>
    ELSE
      LET p0 == idx + 2
          hasName == p0 <= Len(s) /\ IsName(s[p0])
          rawName == IF hasName THEN s[p0] ELSE ""
          p1 == IF hasName THEN p0 + 1 ELSE p0
          p2 == SkipToParen(s, p1)
      IN IF p2 > Len(s) THEN BlocksFrom(s, p2)
         ELSE
           LET p3 == ScanBody(s, p2 + 1, 1, FALSE, FALSE)
           IN <<[name |-> normalizeTableName(rawName),
                 body |-> BlockBody(s, p2 + 1, p3)]>> \o BlocksFrom(s, p3)

parseCreateTableBlocks(sql) == BlocksFrom(sql, 1)

\* the body ends at the first ")" after the opening one, quoted or nested or not
BlockAt_FirstParen(s, i) ==
  LET idx == IndexOfCreateTable(s, i) IN
  IF idx = 0 THEN [stop |-> TRUE, i |-> i, out |-> <<>>]
  ELSE
    LET p0 == idx + 2
        hasName == p0 <= Len(s) /\ IsName(s[p0])
        rawName == IF hasName THEN s[p0] ELSE ""
        p1 == IF hasName THEN p0 + 1 ELSE p0
        p2 == SkipToParen(s, p1)
    IN IF p2 > Len(s) THEN [stop |-> FALSE, i |-> p2, out |-> <<>>]
       ELSE
         LET closes == {j \in (p2 + 1)..Len(s) : s[j] = ")"}
             p3 == IF closes = {} THEN Len(s) + 1 ELSE Min(closes) + 1
         IN [stop |-> FALSE, i |-> p3,
             out |-> <<[name |-> normalizeTableName(rawName),
                        body |-> BlockBody(s, p2 + 1, p3)]>>]

\* one iteration of `while (i < s.length)` of parseCreateTableBlocks, from scan
\* position i: stop (the break), the next position i, the blocks pushed
BlockAt(s, i) ==
  LET idx == IndexOfCreateTable(s, i) IN
  IF idx = 0 THEN [stop |-> TRUE, i |-> i, out |-> <<>>]
  ELSE
    LET p0 == idx + 2
        hasName == p0 <= Len(s) /\ IsName(s[p0])
        rawName == IF hasName THEN s[p0] ELSE ""
        p1 == IF hasName THEN p0 + 1 ELSE p0
        p2 == SkipToParen(s, p1)
    IN IF p2 > Len(s) THEN [stop |-> FALSE, i |-> p2, out |-> <<>>]
       ELSE
         LET p3 == ScanBody(s, p2 + 1, 1, FALSE, FALSE)
         IN [stop |-> FALSE, i |-> p3,
             out |-> <<[name |-> normalizeTableName(rawName),
                        body |-> BlockBody(s, p2 + 1, p3)]>>]

\* first position >= from at which the lexemes of pat occur consecutively, else 0
FindSeq(line, pat, from) ==
  LET hits == {j \in from..(Len(line) - Len(pat) + 1) :
                 \A k \in 1..Len(pat) : line[j + k - 1] = pat[k]}
  IN IF hits = {} THEN 0 ELSE Min(hits)

HasSeq(line, pat) == FindSeq(line, pat, 1) # 0

\* the optional group never captures
OptColumnAt_Never(line, j) == UNDEF

\* optional group (?:\(\s*"?([\w]+)"?\s*\))? at position j: the captured column or UNDEF
OptColumnAt(line, j) ==
  IF j + 2 <= Len(line) /\ line[j] = "(" /\ IsWord(line[j + 1]) /\ line[j + 2] = ")"
  THEN line[j + 1] ELSE UNDEF

\* tableFkRe.exec(line): [found, col, table, toCol]
TableFkMatch(line) ==
  LET hits == {j \in 1..(Len(line) - 6) :
                 /\ line[j] = "foreign" /\ line[j + 1] = "key" /\ line[j + 2] = "("
                 /\ IsWord(line[j + 3]) /\ line[j + 4] = ")"
                 /\ line[j + 5] = "references" /\ IsName(line[j + 6])}
  IN IF hits = {} THEN [found |-> FALSE, col |-> UNDEF, table |-> UNDEF, toCol |-> UNDEF]
     ELSE LET j == Min(hits)
          IN [found |-> TRUE, col |-> line[j + 3], table |-> line[j + 6],
              toCol |-> OptColumnAt(line, j + 7)]

\* colRefRe.exec(line): [found, col, table, toCol]
ColRefMatch(line) ==
  LET hits == {j \in 3..(Len(line) - 1) : line[j] = "references" /\ IsName(line[j + 1])}
  IN IF Len(line) = 0 \/ ~IsWord(line[1]) \/ hits = {}
     THEN [found |-> FALSE, col |-> UNDEF, table |-> UNDEF, toCol |-> UNDEF]
     ELSE LET j == Min(hits)
          IN [found |-> TRUE, col |-> line[1], table |-> line[j + 1],
              toCol |-> OptColumnAt(line, j + 2)]

\* the ignored clauses: pure constraints, primary key, unique, check
IsNoise(line) ==
  \/ (line[1] = "constraint" /\ ~(\E j \in 1..Len(line) : line[j] = "references"))
  \/ (Len(line) >= 2 /\ line[1] = "primary" /\ line[2] = "key")
  \/ line[1] = "unique"
  \/ line[1] = "check"

\* /^"?([\w]+)"?\s+(.+)$/.exec(line)
IsColumnDef(line) == Len(line) >= 2 /\ IsWord(line[1])

IsPk(rest) == HasSeq(rest, <<"primary", "key">>)

IsNotNullFlag_NoPk(rest) == HasSeq(rest, <<"not", "null">>)
IsNotNullFlag(rest) == IsPk(rest) \/ HasSeq(rest, <<"not", "null">>)

\* typeMatch[0]: the type word, its multi-word suffix, its parenthesised suffix
TypeOf(rest) ==
  IF ~IsAlpha(rest[1]) THEN <<rest[1]>>
  ELSE
    LET wordsEnd ==
          IF FindSeq(rest, <<"with", "time", "zone">>, 2) = 2 THEN 4
          ELSE IF FindSeq(rest, <<"without", "time", "zone">>, 2) = 2 THEN 4
          ELSE IF FindSeq(rest, <<"varying">>, 2) = 2 THEN 2
          ELSE 1
        closes == {j \in (wordsEnd + 2)..Len(rest) : rest[j] = ")"}
        typeEnd == IF wordsEnd + 1 <= Len(rest) /\ rest[wordsEnd + 1] = "(" /\ closes # {}
                   THEN Min(closes) ELSE wordsEnd
    IN SubSeq(rest, 1, typeEnd)

NoFk == [table |-> UNDEF, column |-> UNDEF]

Relation(fromTable, fromColumn, toTable, toColumn) ==
  [fromTable |-> fromTable, fromColumn |-> fromColumn,
   toTable |-> toTable, toColumn |-> toColumn,
   id |-> <<fromTable, fromColumn, toTable, IF toColumn = "" THEN "?" ELSE toColumn>>]

\* one iteration of `for (const item of items)`: acc = [columns, relations, pkByTable]
ParseItem(acc, tableName, line) ==
  LET fk == TableFkMatch(line) IN
  IF fk.found THEN
    [acc EXCEPT !.relations = @ \o
       <<Relation(tableName, unquoteIdent(fk.col), normalizeTableName(fk.table),
                  IF fk.toCol # UNDEF THEN unquoteIdent(fk.toCol) ELSE "")>>]
  ELSE IF IsNoise(line) THEN acc
  ELSE IF ~IsColumnDef(line) THEN acc
  ELSE
    LET colName == unquoteIdent(line[1])
        rest == Tail(line)
        isPk == IsPk(rest)
        r == ColRefMatch(line)
        toTable == normalizeTableName(r.table)
        toColumn == IF r.toCol # UNDEF THEN unquoteIdent(r.toCol) ELSE UNDEF
        col == [name |-> colName, type |-> TypeOf(rest),
                isPrimaryKey |-> isPk, isNotNull |-> IsNotNullFlag(rest),
                isForeignKey |-> r.found,
                fkTo |-> IF r.found THEN [table |-> toTable, column |-> toColumn] ELSE NoFk]
    IN [columns |-> acc.columns \o <<col>>,
        relations |-> IF r.found
                      THEN acc.relations \o
                           <<Relation(tableName, unquoteIdent(r.col), toTable,
                                      IF toColumn = UNDEF THEN "" ELSE toColumn)>>
                      ELSE acc.relations,
        pkByTable |-> IF isPk /\ tableName \notin DOMAIN acc.pkByTable
                      THEN acc.pkByTable @@ (tableName :> colName)
                      ELSE acc.pkByTable]

RECURSIVE ParseItems(_, _, _)
ParseItems(acc, tableName, items) ==
  IF items = <<>> THEN acc
  ELSE ParseItems(ParseItem(acc, tableName, Head(items)), tableName, Tail(items))

\* `for (const { name, body } of tableBlocks)`: g = [tables, relations, pkByTable]
RECURSIVE ParseBlocks(_, _)
ParseBlocks(g, blocks) ==
  IF blocks = <<>> THEN g
  ELSE
    LET b == Head(blocks)
        acc == ParseItems([columns |-> <<>>, relations |-> g.relations,
                           pkByTable |-> g.pkByTable],
                          b.name, splitTopLevelComma(b.body))
    IN ParseBlocks([tables |-> g.tables \o <<[name |-> b.name, columns |-> acc.columns]>>,
                    relations |-> acc.relations,
                    pkByTable |-> acc.pkByTable],
                   Tail(blocks))

\* tableByName.has(name)
TableNames(tables) == {tables[i].name : i \in DOMAIN tables}

\* tableByName.get(name): the entry set last
TableIndex(tables, name) == Max({i \in DOMAIN tables : tables[i].name = name})

\* r.toColumn if given, else pkByTable.get(r.toTable) ?? 'id'
ResolveToColumn(r, pkByTable) ==
  IF r.toColumn # "" THEN r.toColumn
  ELSE IF r.toTable \in DOMAIN pkByTable THEN pkByTable[r.toTable]
  ELSE "id"

ResolveRelation(r, pkByTable) ==
  Relation(r.fromTable, r.fromColumn, r.toTable, ResolveToColumn(r, pkByTable))

KeepRelation_NoTargetCheck(r, tables) == r.fromTable \in TableNames(tables)
KeepRelation(r, tables) ==
  r.fromTable \in TableNames(tables) /\ r.toTable \in TableNames(tables)

ResolveRelations(relations, tables, pkByTable) ==
  SelectSeq([i \in DOMAIN relations |-> ResolveRelation(relations[i], pkByTable)],
            LAMBDA r : KeepRelation(r, tables))

\* `for (const rel of resolvedRelations)`: mark the first column of that name
MarkOne(tables, rel) ==
  LET ti == TableIndex(tables, rel.fromTable)
      cols == tables[ti].columns
      hits == {ci \in DOMAIN cols : cols[ci].name = rel.fromColumn}
  IN IF hits = {} THEN tables
     ELSE [tables EXCEPT ![ti].columns[Min(hits)] =
             [@ EXCEPT !.isForeignKey = TRUE,
                       !.fkTo = [table |-> rel.toTable, column |-> rel.toColumn]]]

RECURSIVE MarkForeignKeys(_, _)
MarkForeignKeys(tables, rels) ==
  IF rels = <<>> THEN tables
  ELSE MarkForeignKeys(MarkOne(tables, Head(rels)), Tail(rels))

parseSqlToGraph(sql) ==
  LET g == ParseBlocks([tables |-> <<>>, relations |-> <<>>, pkByTable |-> <<>>],
                       parseCreateTableBlocks(sql))
      resolved == ResolveRelations(g.relations, g.tables, g.pkByTable)
  IN [tables |-> MarkForeignKeys(g.tables, resolved), relations |-> resolved]

\* ------------------------------------------------------ parseEnumTypes
\* A CREATE TYPE statement is modelled from the parenthesis after ENUM on, as
\* a sequence of characters; the head `create type t as enum` matches the
\* first part of the regular expression and names the type t.
QUOTE == "'"

\* m[2] = ([\s\S]*?) followed by \): the characters between the opening
\* parenthesis and the first closing one; `found` is FALSE when there is none
EnumBody(text) ==
  LET closing == {j \in 2..Len(text) : text[j] = ")"}
  IN IF text = <<>> \/ text[1] # "(" \/ closing = {}
     THEN [found |-> FALSE, body |-> <<>>]
     ELSE [found |-> TRUE, body |-> SubSeq(text, 2, Min(closing) - 1)]

\* (?:''|[^'])* run greedily from st.q: st = [q, lastPair], lastPair the
\* position of the last '' taken (0: none).  Returns the final st.
RECURSIVE QuoteScan(_, _)
QuoteScan(body, st) ==
  IF st.q + 1 <= Len(body) /\ body[st.q] = QUOTE /\ body[st.q + 1] = QUOTE
  THEN QuoteScan(body, [q |-> st.q + 2, lastPair |-> st.q])
  ELSE IF st.q <= Len(body) /\ body[st.q] # QUOTE
  THEN QuoteScan(body, [q |-> st.q + 1, lastPair |-> st.lastPair])
  ELSE st

\* valRe = /'((?:''|[^'])*)'/ tried at position at (body[at] is a quote): the
\* position of the closing quote, or 0.  When the greedy run reaches the end
\* of the body the matcher backtracks to the last '' it took and closes there.
MatchEnd(body, at) ==
  LET st == QuoteScan(body, [q |-> at + 1, lastPair |-> 0])
  IN IF st.q <= Len(body) THEN st.q ELSE st.lastPair

\* vm[1].replace(/''/g, "'")
RECURSIVE Unescape(_)
Unescape(lit) ==
  IF lit = <<>> THEN <<>>
  ELSE IF Len(lit) >= 2 /\ lit[1] = QUOTE /\ lit[2] = QUOTE
  THEN <<QUOTE>> \o Unescape(SubSeq(lit, 3, Len(lit)))
  ELSE <<lit[1]>> \o Unescape(Tail(lit))

\* `while ((vm = valRe.exec(body)))`: st = [i, values], i the lastIndex
RECURSIVE ValScan(_, _)
ValScan(body, st) ==
  LET starts == {at \in st.i..Len(body) : body[at] = QUOTE /\ MatchEnd(body, at) # 0}
  IN IF starts = {} THEN st.values
     ELSE LET at == Min(starts)
              end == MatchEnd(body, at)
          IN ValScan(body, [i |-> end + 1,
                            values |-> Append(st.values,
                                              Unescape(SubSeq(body, at + 1, end - 1)))])

parseEnumTypes(text) ==
  LET m == EnumBody(text)
  IN IF ~m.found THEN <<>>
     ELSE <<[name |-> normalizeTableName("t"),
             values |-> ValScan(m.body, [i |-> 1, values |-> <<>>])]>>

\* --------------------------------------------------- DiagramCanvas.tsx
ROUTE_GRID == 24
ROUTE_PAD == 260
OBSTACLE_PAD == 14
ENDPOINT_PAD == 4
ROUTE_MAX_ITERS == 40000

Pt(x, y) == [x |-> x, y |-> y]

inflateRect(r, pad) ==
  [x |-> r.x - pad, y |-> r.y - pad, w |-> r.w + pad * 2, h |-> r.h + pad * 2]

pointInRect(x, y, r) ==
  x >= r.x /\ x <= r.x + r.w /\ y >= r.y /\ y <= r.y + r.h

\* Math.round(v / step) * step, Math.round rounding halves up
snap(v, step) == ((2 * v + step) \div (2 * step)) * step

\* compressOrthogonal: st = [i, out] over a list of points
RECURSIVE CompressScan(_, _)
CompressScan(pts, st) ==
  IF st.i > Len(pts) THEN st.out
  ELSE
    LET q == pts[st.i]
        out == st.out
        n == Len(out)
        o == out[n]
        collinear == n >= 2 /\ ((out[n - 1].x = o.x /\ o.x = q.x)
                                \/ (out[n - 1].y = o.y /\ o.y = q.y))
    IN CompressScan(pts,
         [i |-> st.i + 1,
          out |-> IF q.x = o.x /\ q.y = o.y THEN out
                  ELSE IF collinear THEN [out EXCEPT ![n] = q]
                  ELSE Append(out, q)])

compressOrthogonal(pts) ==
  IF Len(pts) <= 2 THEN pts
  ELSE CompressScan(pts, [i |-> 2, out |-> <<pts[1]>>])

\* out.splice(at, 0, q): q becomes the element after the first `at` points
InsertAfter(out, at, q) == SubSeq(out, 1, at) \o <<q>> \o SubSeq(out, at + 1, Len(out))

enforceRightAngleEndpoints(pts) ==
  IF Len(pts) < 4 THEN pts
  ELSE
    LET out1 == IF pts[1].x # pts[2].x /\ pts[1].y # pts[2].y
                THEN InsertAfter(pts, 1, Pt(pts[2].x, pts[1].y))
                ELSE pts
        n == Len(out1)
        out2 == IF out1[n].x # out1[n - 1].x /\ out1[n].y # out1[n - 1].y
                THEN InsertAfter(out1, n - 1, Pt(out1[n - 1].x, out1[n].y))
                ELSE out1
    IN compressOrthogonal(out2)

manhattan(a, b) == Abs(a.x - b.x) + Abs(a.y - b.y)

buildObstaclesForEdge(rects, sourceId, targetId) ==
  [i \in DOMAIN rects |->
     inflateRect(rects[i], IF i = sourceId \/ i = targetId THEN ENDPOINT_PAD ELSE OBSTACLE_PAD)]

\* isBlocked that sees no obstacle
isBlocked_Never(x, y, obs) == FALSE

isBlocked(x, y, obs) == \E i \in DOMAIN obs : pointInRect(x, y, obs[i])

\* the search window of routeManhattanAStar around the snapped start and goal
Window(start, goal, obs) ==
  [minX |-> Min({start.x, goal.x} \cup {obs[i].x : i \in DOMAIN obs}) - ROUTE_PAD,
   minY |-> Min({start.y, goal.y} \cup {obs[i].y : i \in DOMAIN obs}) - ROUTE_PAD,
   maxX |-> Max({start.x, goal.x} \cup {obs[i].x + obs[i].w : i \in DOMAIN obs}) + ROUTE_PAD,
   maxY |-> Max({start.y, goal.y} \cup {obs[i].y + obs[i].h : i \in DOMAIN obs}) + ROUTE_PAD]

inBounds(c, win) ==
  c.x >= win.minX /\ c.x <= win.maxX /\ c.y >= win.minY /\ c.y <= win.maxY

nudgeOut(c, win, obs, step) ==
  IF ~isBlocked(c.x, c.y, obs) THEN c
  ELSE
    LET candidates == <<Pt(c.x + step, c.y), Pt(c.x - step, c.y),
                        Pt(c.x, c.y + step), Pt(c.x, c.y - step),
                        Pt(c.x + step * 2, c.y), Pt(c.x - step * 2, c.y)>>
        ok == {i \in DOMAIN candidates :
                 inBounds(candidates[i], win)
                 /\ ~isBlocked(candidates[i].x, candidates[i].y, obs)}
    IN IF ok = {} THEN c ELSE candidates[Min(ok)]

neighbors(c, step) ==
  <<Pt(c.x + step, c.y), Pt(c.x - step, c.y), Pt(c.x, c.y + step), Pt(c.x, c.y - step)>>

\* bestIndex that keeps the last of the open cells with the lowest f-score
bestIndex_Last(openList, f) ==
  LET bestF == Min({f[openList[j]] : j \in DOMAIN openList})
  IN Max({i \in DOMAIN openList : f[openList[i]] = bestF})

\* bestIndex: the first index of the open list with the lowest f-score
bestIndex(openList, f) ==
  LET bestF == Min({f[openList[j]] : j \in DOMAIN openList})
  IN Min({i \in DOMAIN openList : f[openList[i]] = bestF})

\* Relax without the improvement test: every reachable neighbour is re-parented
Relax_Always(st, nb, cur, goalCell, win, obs) ==
  IF ~inBounds(nb, win) \/ isBlocked(nb.x, nb.y, obs) THEN st
  ELSE
    LET tentative == st.gScore[cur] + 1
    IN [open |-> IF \E i \in DOMAIN st.open : st.open[i] = nb
                 THEN st.open ELSE Append(st.open, nb),
        cameFrom |-> (nb :> cur) @@ st.cameFrom,
        gScore |-> (nb :> tentative) @@ st.gScore,
        fScore |-> (nb :> tentative + manhattan(nb, goalCell)) @@ st.fScore]

\* the body of `for (const nb of neighbors(current))`: st = [open, cameFrom, gScore, fScore]
Relax(st, nb, cur, goalCell, win, obs) ==
  IF ~inBounds(nb, win) \/ isBlocked(nb.x, nb.y, obs) THEN st
  ELSE
    LET tentative == st.gScore[cur] + 1
    IN IF nb \in DOMAIN st.gScore /\ ~(tentative < st.gScore[nb]) THEN st
       ELSE [open |-> IF \E i \in DOMAIN st.open : st.open[i] = nb
                      THEN st.open ELSE Append(st.open, nb),
             cameFrom |-> (nb :> cur) @@ st.cameFrom,
             gScore |-> (nb :> tentative) @@ st.gScore,
             fScore |-> (nb :> tentative + manhattan(nb, goalCell)) @@ st.fScore]

RECURSIVE RelaxAll(_, _, _, _, _, _)
RelaxAll(st, nbs, cur, goalCell, win, obs) ==
  IF nbs = <<>> THEN st
  ELSE RelaxAll(Relax(st, Head(nbs), cur, goalCell, win, obs),
                Tail(nbs), cur, goalCell, win, obs)

Reverse(seq) == [i \in DOMAIN seq |-> seq[Len(seq) + 1 - i]]

\* the path of cells with the exact anchors at its two ends, compressed
ReconstructPoints(cells, startWorld, endWorld) ==
  LET p1 == [cells EXCEPT ![1] = startWorld]
      p2 == [p1 EXCEPT ![Len(p1)] = endWorld]
  IN compressOrthogonal(p2)

\* the fallback with the bend at the start's x instead of the midpoint
FallbackPath_AtStart(startWorld, endWorld) ==
  compressOrthogonal(<<startWorld, Pt(startWorld.x, startWorld.y),
                       Pt(startWorld.x, endWorld.y), endWorld>>)

\* the fallback of edgePaths when routeManhattanAStar returns null
FallbackPath(startWorld, endWorld) ==
  LET midX == (startWorld.x + endWorld.x) \div 2
  IN compressOrthogonal(<<startWorld, Pt(midX, startWorld.y),
                          Pt(midX, endWorld.y), endWorld>>)

\* ------------------------------- TableNodeKonva / EnumNodeKonva (sizes)
TABLE_CARD_W == 360
ENUM_CARD_W == 280
headerH == 40
padding == 12
rowH == 24

\* getTableHLayout(table).cardW: with names and types of at most a dozen
\* characters the content needs 336 and the header 320, so the card is TABLE_CARD.w
estimateTableWidth(table) == TABLE_CARD_W

\* no index block: headerH + padding + colsCount * rowH + 12
estimateTableHeight(table) ==
  headerH + padding + Max({1, Len(table.columns)}) * rowH + 12

\* values of at most 17 characters: the card is ENUM_CARD.w wide
estimateEnumWidth(enumDef) == ENUM_CARD_W

estimateEnumHeight(enumDef) ==
  40 + 12 + Min({8, IF Len(enumDef.values) = 0 THEN 1 ELSE Len(enumDef.values)}) * 18 + 22

\* cols.findIndex((c) => c.name === columnName): zero-based, -1 when absent
FindIndex(cols, columnName) ==
  LET hits == {i \in DOMAIN cols : cols[i] = columnName}
  IN IF hits = {} THEN -1 ELSE Min(hits) - 1

\* tableAnchorY that always anchors at the first row
tableAnchorY_Top(table, columnName) == headerH + padding + rowH \div 2

\* the y offset of the anchor of a column row inside a table node
tableAnchorY(table, columnName) ==
  LET cols == table.columns
      count == Max({1, Len(cols)})
      idx == IF columnName # UNDEF
             THEN Max({0, FindIndex(cols, columnName)})
             ELSE count \div 2
      clampedIdx == Min({IF idx < 0 THEN 0 ELSE idx, count - 1})
      rowTop == headerH + padding + clampedIdx * rowH
  IN rowTop + rowH \div 2

\* a node is [kind, x, y, table |-> [columns], enum |-> [values]]
nodeRect(n) ==
  [x |-> n.x, y |-> n.y,
   w |-> IF n.kind = "table" THEN estimateTableWidth(n.table) ELSE estimateEnumWidth(n.enum),
   h |-> IF n.kind = "table" THEN estimateTableHeight(n.table) ELSE estimateEnumHeight(n.enum)]

\* the anchors of an edge from rectangle a to rectangle b (ay, by: anchor rows)
AnchorStart(a, b, ay) ==
  Pt(IF 2 * b.x + b.w >= 2 * a.x + a.w THEN a.x + a.w ELSE a.x, a.y + ay)

\* the end anchor on the side of b the edge should not enter
AnchorEnd_SameSide(a, b, by) ==
  Pt(IF 2 * b.x + b.w >= 2 * a.x + a.w THEN b.x + b.w ELSE b.x, b.y + by)

AnchorEnd(a, b, by) ==
  Pt(IF 2 * b.x + b.w >= 2 * a.x + a.w THEN b.x ELSE b.x + b.w, b.y + by)

\* the y offset of the anchor of node n for an edge that names column col
AnchorOffset(n, col) ==
  IF n.kind = "table" THEN tableAnchorY(n.table, col) ELSE nodeRect(n).h \div 2

SegLen2(points, i) ==
  (points[i + 1].x - points[i].x) * (points[i + 1].x - points[i].x)
    + (points[i + 1].y - points[i].y) * (points[i + 1].y - points[i].y)

\* the index of the segment picked by the loop of longestSegmentMidpoint:
\* `len2 > bestLen2` keeps the first of the longest segments
LongestSegment(points) ==
  Min({i \in 1..(Len(points) - 1) :
         \A j \in 1..(Len(points) - 1) : SegLen2(points, j) <= SegLen2(points, i)})

\* midX, midY are kept doubled (midX2 = 2 * midX).  A path of one point has
\* no points[2], points[3]: x2, y2 are undefined and both sums are NaN (nan)
longestSegmentMidpoint(points) ==
  IF Len(points) < 2
  THEN [nan |-> TRUE, midX2 |-> 0, midY2 |-> 0,
        seg |-> [x |-> points[1].x, y |-> points[1].y, x2 |-> 0, y2 |-> 0]]
  ELSE LET i == LongestSegment(points)
       IN [nan |-> FALSE,
           midX2 |-> points[i].x + points[i + 1].x,
           midY2 |-> points[i].y + points[i + 1].y,
           seg |-> [x |-> points[i].x, y |-> points[i].y,
                    x2 |-> points[i + 1].x, y2 |-> points[i + 1].y]]

\* labelPos = (midX + nx * 10, midY + ny * 10) with (nx, ny) = (-segDy, segDx) / segLen,
\* segLen = sqrt(segDx^2 + segDy^2) || 1.  The position is kept exactly as
\* mid2 / 2 + off / sqrt(den2); nan: both coordinates are NaN
LabelPos(points) ==
  LET m == longestSegmentMidpoint(points)
  IN IF m.nan THEN [nan |-> TRUE, mid2 |-> Pt(0, 0), off |-> Pt(0, 0), den2 |-> 1]
     ELSE LET segDx == m.seg.x2 - m.seg.x
              segDy == m.seg.y2 - m.seg.y
              len2 == segDx * segDx + segDy * segDy
          IN [nan |-> FALSE,
              mid2 |-> Pt(m.midX2, m.midY2),
              off |-> Pt((0 - segDy) * 10, segDx * 10),
              den2 |-> IF len2 = 0 THEN 1 ELSE len2]

\* arrowHeadPoints(points, size = 10, spread = 6).  With d = (dx, dy) the final
\* segment and len = sqrt(len2), the outer points are p2 + a / len and
\* p2 + b / len, kept exactly as the numerators a, b and len2; none: null
size == 10
spread == 6

arrowHeadPoints_Flat(points) ==
  IF Len(points) < 2
  THEN [none |-> TRUE, tip |-> Pt(0, 0), a |-> Pt(0, 0), b |-> Pt(0, 0), len2 |-> 1]
  ELSE LET p2 == points[Len(points)]
           p1 == points[Len(points) - 1]
           dx == p2.x - p1.x
           dy == p2.y - p1.y
       IN IF dx = 0 /\ dy = 0
          THEN [none |-> TRUE, tip |-> Pt(0, 0), a |-> Pt(0, 0), b |-> Pt(0, 0), len2 |-> 1]
          ELSE [none |-> FALSE, tip |-> p2,
                a |-> Pt((0 - dx) * size - dy * spread, (0 - dy) * size + dx * spread),
                b |-> Pt((0 - dx) * size - dy * spread, (0 - dy) * size + dx * spread),
                len2 |-> dx * dx + dy * dy]

arrowHeadPoints(points) ==
  IF Len(points) < 2
  THEN [none |-> TRUE, tip |-> Pt(0, 0), a |-> Pt(0, 0), b |-> Pt(0, 0), len2 |-> 1]
  ELSE LET p2 == points[Len(points)]
           p1 == points[Len(points) - 1]
           dx == p2.x - p1.x
           dy == p2.y - p1.y
       IN IF dx = 0 /\ dy = 0
          THEN [none |-> TRUE, tip |-> Pt(0, 0), a |-> Pt(0, 0), b |-> Pt(0, 0), len2 |-> 1]
          ELSE [none |-> FALSE, tip |-> p2,
                a |-> Pt((0 - dx) * size - dy * spread, (0 - dy) * size + dx * spread),
                b |-> Pt((0 - dx) * size + dy * spread, (0 - dy) * size - dx * spread),
                len2 |-> dx * dx + dy * dy]

\* ------------------------------------------- layoutGraph.ts and useDiagrams.ts
\* g.setGraph({ rankdir: 'LR', nodesep: 60, ranksep: 120 })
nodesep == 60
ranksep == 120

\* dagre.layout for the graphs drawn here (no cycle): a node's rank is the
\* longest chain of edges that ends in it, ranks run left to right ranksep
\* apart, the nodes of a rank are stacked nodesep apart in input order.  The
\* result is the top-left corner (p.x - p.width / 2, p.y - p.height / 2)
RECURSIVE RankOf(_, _, _)
RankOf(id, edges, fuel) ==
  LET preds == {edges[e].source : e \in {i \in DOMAIN edges :
                                          edges[i].target = id /\ edges[i].source # id}}
  IN IF preds = {} \/ fuel = 0 THEN 0
     ELSE 1 + Max({RankOf(q, edges, fuel - 1) : q \in preds})

RECURSIVE SumOver(_, _)
SumOver(S, f) ==
  IF S = {} THEN 0
  ELSE LET c == CHOOSE c \in S : TRUE IN f[c] + SumOver(S \ {c}, f)

dagreLayout(ns, edges) ==
  LET rank == [i \in DOMAIN ns |-> RankOf(ns[i].id, edges, Len(ns))]
      rankWidth == [r \in 0..Len(ns) |->
                      Max({0} \cup {ns[i].width : i \in {j \in DOMAIN ns : rank[j] = r}})]
      xOf(i) == SumOver(0..(rank[i] - 1), [r \in 0..Len(ns) |-> rankWidth[r] + ranksep])
      yOf(i) == SumOver({j \in 1..(i - 1) : rank[j] = rank[i]},
                        [j \in DOMAIN ns |-> ns[j].height + nodesep])
  IN [i \in DOMAIN ns |-> Pt(xOf(i), yOf(i))]

\* layoutGraph that lays every node out anew, cached or not
layoutGraph_Relayout(ns, edges, keepExistingPositions, existingPositions) ==
  LET laid == dagreLayout(ns, edges)
  IN [i \in DOMAIN ns |-> [ns[i] EXCEPT !.position = laid[i]]]

layoutGraph(ns, edges, keepExistingPositions, existingPositions) ==
  LET laid == dagreLayout(ns, edges)
  IN [i \in DOMAIN ns |->
        IF keepExistingPositions /\ ns[i].id \in DOMAIN existingPositions
        THEN ns[i]
        ELSE [ns[i] EXCEPT !.position = laid[i]]]

\* the effect of useDiagrams: the nodes shown for graph g with the position
\* cache prev (the texts drawn here declare no enum type)
DiagramNodes(g, prev) ==
  LET baseNodes ==
        [t \in DOMAIN g.tables |->
           [id |-> g.tables[t].name,
            position |-> IF g.tables[t].name \in DOMAIN prev
                         THEN Pt(prev[g.tables[t].name].x, prev[g.tables[t].name].y)
                         ELSE Pt(0, 0),
            width |-> estimateTableWidth(g.tables[t]),
            height |-> estimateTableHeight(g.tables[t])]]
      layoutInputEdges ==
        [r \in DOMAIN g.relations |->
           [source |-> g.relations[r].fromTable, target |-> g.relations[r].toTable]]
      laidOutNodes == layoutGraph(baseNodes, layoutInputEdges, TRUE, prev)
  IN [i \in DOMAIN laidOutNodes |->
        [id |-> laidOutNodes[i].id, kind |-> "table",
         x |-> laidOutNodes[i].position.x, y |-> laidOutNodes[i].position.y]]

\* ------------------------------------------------------- useBlueprint.ts
\* mapToRecord, recordToMap: one entry per key, holding x and y only
mapToRecord(m) == [key \in DOMAIN m |-> [x |-> m[key].x, y |-> m[key].y]]
recordToMap(r) == [key \in DOMAIN r |-> [x |-> r[key].x, y |-> r[key].y]]

\* `for (const n of nodes) pos.set(n.id, ...)`: the last node of an id wins
NodePositions(ns) ==
  [id \in {ns[i].id : i \in DOMAIN ns} |->
     LET last == Max({i \in DOMAIN ns : ns[i].id = id})
     IN [x |-> ns[last].x, y |-> ns[last].y]]

\* the payload of exportBp as JSON.parse reads it back
ExportedFile(text, width, ns, vp) ==
  [version |-> 1, sql |-> text, leftWidth |-> width,
   hasPositions |-> TRUE, positions |-> mapToRecord(NodePositions(ns)),
   hasViewport |-> TRUE, viewport |-> vp]

\* importBp goes on unless
\* !data.version || !data.sql || !data.leftWidth || !data.positions
Accepts(data) ==
  ~(data.version = 0 \/ data.sql = <<>> \/ data.leftWidth = 0 \/ ~data.hasPositions)

\* ------------------------------------------------- the SQL editor (page.tsx)
VARIABLES sql, defs, graph

sqlVars == <<sql, defs, graph>>

\* the state of the routing of one edge (DiagramCanvas.tsx)
VARIABLES nodes, edge, startWorld, endWorld, obstacles, sCell, gCell,
          open, cameFrom, gScore, fScore, iters, pc, path, k, route, pts,
          labelPos, renders, prevPts

routeVars == <<nodes, edge, startWorld, endWorld, obstacles, sCell, gCell,
               open, cameFrom, gScore, fScore, iters, pc, path, k, route, pts,
               labelPos, renders, prevPts>>

\* the text of one CREATE TYPE statement being typed, and its extraction
VARIABLES enumLits, enumSql, enums

enumVars == <<enumLits, enumSql, enums>>

\* the invocations of parseSqlToGraph made so far: [defs, text, result]
VARIABLES calls

\* a point list handed to arrowHeadPoints, and the arrowhead returned
VARIABLES arrowPts, head

arrowVars == <<arrowPts, head>>

\* parseCreateTableBlocks at work on a text: the text, the body typed into its
\* first table, the scan position i and its previous value, the blocks pushed,
\* the items of each block (splitTopLevelComma), and where the code stands
VARIABLES scanText, scanBody, scanI, scanPrevI, scanOut, scanItems, scanPc

scanVars == <<scanText, scanBody, scanI, scanPrevI, scanOut, scanItems, scanPc>>

\* the side panels of HomePage: their widths in percent, whether they are
\* open, the two drag refs (active = FALSE stands for null), and where the
\* mouse is, in percent of window.innerWidth
VARIABLES leftWidth, rightWidth, leftOpen, rightOpen, dragLeftRef, dragRightRef, mouseX

panelVars == <<leftWidth, rightWidth, leftOpen, rightOpen, dragLeftRef, dragRightRef, mouseX>>

\* the diagram of HomePage: the nodes shown, the position cache, the viewport
\* ref and its snapshot, the file last written by exportBp; then what the last
\* step was, the file it read, the state it started from, and the number of
\* steps taken
VARIABLES diagramNodes, positionsRef, viewportRef, viewportSnapshot, bpFile,
          lastStep, lastFile, before, steps

appVars == <<diagramNodes, positionsRef, viewportRef, viewportSnapshot, bpFile,
             lastStep, lastFile, before, steps>>

vars == <<sqlVars, routeVars, enumVars, calls, arrowVars, scanVars, panelVars, appVars>>

InitialViewport == [x |-> 0, y |-> 0, zoom |-> 1]

\* no file: what JSON.parse makes of the text {}
NoFile ==
  [version |-> 0, sql |-> <<>>, leftWidth |-> 0, hasPositions |-> FALSE,
   positions |-> <<>>, hasViewport |-> FALSE, viewport |-> InitialViewport]

NoSnapshot ==
  [sql |-> <<>>, nodes |-> <<>>, positions |-> <<>>, viewport |-> InitialViewport]

\* no diagram is shown
AppIdle ==
  /\ diagramNodes = <<>>
  /\ positionsRef = <<>>
  /\ viewportRef = InitialViewport
  /\ viewportSnapshot = InitialViewport
  /\ bpFile = NoFile
  /\ lastStep = "idle"
  /\ lastFile = NoFile
  /\ before = NoSnapshot
  /\ steps = 0

NoDrag == [active |-> FALSE, startX |-> 0, startWidth |-> 0]

\* useState(30), useState(25), useState(true) twice, useRef(null) twice
PanelsStart ==
  /\ leftWidth = 30
  /\ rightWidth = 25
  /\ leftOpen = TRUE
  /\ rightOpen = TRUE
  /\ dragLeftRef = NoDrag
  /\ dragRightRef = NoDrag
  /\ mouseX = 0

ScanIdle ==
  /\ scanText = <<>>
  /\ scanBody = <<>>
  /\ scanI = 1
  /\ scanPrevI = 0
  /\ scanOut = <<>>
  /\ scanItems = <<>>
  /\ scanPc = "idle"

ArrowIdle ==
  /\ arrowPts = <<>>
  /\ head = <<>>

\* no CREATE TYPE statement is being typed
EnumIdle ==
  /\ enumLits = <<>>
  /\ enumSql = <<>>
  /\ enums = <<>>

CallsIdle == calls = <<>>

\* no edge is being routed
RouteIdle ==
  /\ nodes = <<>>
  /\ edge = <<>>
  /\ labelPos = <<>>
  /\ renders = 0
  /\ prevPts = <<>>
  /\ startWorld = [x |-> 0, y |-> 0]
  /\ endWorld = [x |-> 0, y |-> 0]
  /\ obstacles = <<>>
  /\ sCell = [x |-> 0, y |-> 0]
  /\ gCell = [x |-> 0, y |-> 0]
  /\ open = <<>>
  /\ cameFrom = <<>>
  /\ gScore = <<>>
  /\ fScore = <<>>
  /\ iters = 0
  /\ pc = "idle"
  /\ path = <<>>
  /\ k = [x |-> 0, y |-> 0]
  /\ route = [found |-> FALSE, pts |-> <<>>]
  /\ pts = <<>>

TableNameChoices == {"a", "b"}

ItemKinds == {"pkcol", "col", "ref", "refcol", "pk", "pk2", "fk", "cfk", "fk2"}

\* the clause a user types for each kind of item
ItemText(kind) ==
  CASE kind = "pkcol" -> <<"uid", "int", "primary", "key">>
    [] kind = "col" -> <<"x", "int", "not", "null">>
    [] kind = "ref" -> <<"x", "int", "references", "a">>
    [] kind = "refcol" -> <<"x", "int", "references", "public.b", "(", "uid", ")">>
    [] kind = "pk" -> <<"primary", "key", "(", "x", ")">>
    [] kind = "pk2" -> <<"primary", "key", "(", "x", ",", "uid", ")">>
    [] kind = "fk" -> <<"foreign", "key", "(", "x", ")", "references", "b">>
    [] kind = "cfk" -> <<"constraint", "c", "foreign", "key", "(", "x", ")",
                         "references", "a", "(", "x", ")">>
    [] kind = "fk2" -> <<"foreign", "key", "(", "x", ",", "uid", ")",
                         "references", "a", "(", "x", ",", "uid", ")">>

RECURSIVE TotalItems(_)
TotalItems(ds) == IF ds = <<>> THEN 0 ELSE Len(Head(ds).items) + TotalItems(Tail(ds))

\* useState(sql) with the editor cleared; graph = useMemo(parseSqlToGraph(sql))
SqlEmpty ==
  /\ sql = <<>>
  /\ defs = <<>>
  /\ graph = parseSqlToGraph(<<>>)

SqlInit == SqlEmpty /\ RouteIdle /\ EnumIdle /\ CallsIdle /\ ArrowIdle /\ ScanIdle /\ PanelsStart /\ AppIdle

\* the user starts a table definition
NewTable(n) ==
  /\ Len(defs) < MaxTables
  /\ sql' = sql \o <<"create", "table", n, "(">>
  /\ defs' = Append(defs, [name |-> n, items |-> <<>>, closed |-> FALSE])
  /\ graph' = parseSqlToGraph(sql')
  /\ UNCHANGED <<routeVars, enumVars, calls, arrowVars, scanVars, panelVars, appVars>>

\* the user types one more clause into the definition being written
AddItem(kind) ==
  /\ defs # <<>>
  /\ ~Last(defs).closed
  /\ TotalItems(defs) < MaxItems
  /\ sql' = sql \o (IF Last(defs).items = <<>> THEN <<>> ELSE <<",">>) \o ItemText(kind)
  /\ defs' = [defs EXCEPT ![Len(defs)].items = Append(@, kind)]
  /\ graph' = parseSqlToGraph(sql')
  /\ UNCHANGED <<routeVars, enumVars, calls, arrowVars, scanVars, panelVars, appVars>>

\* the user closes the definition being written
CloseTable ==
  /\ defs # <<>>
  /\ ~Last(defs).closed
  /\ sql' = sql \o <<")", ";">>
  /\ defs' = [defs EXCEPT ![Len(defs)].closed = TRUE]
  /\ graph' = parseSqlToGraph(sql')
  /\ UNCHANGED <<routeVars, enumVars, calls, arrowVars, scanVars, panelVars, appVars>>

SqlNext ==
  \/ \E n \in TableNameChoices : NewTable(n)
  \/ \E kind \in ItemKinds : AddItem(kind)
  \/ CloseTable

SpecSql == SqlInit /\ [][SqlNext]_vars

\* ------------------------------------------- one edge of edgePaths, routed
\* the diagrams routed: the source is table NodeA at the origin; the target is
\* a table or an enum card at one of the positions below
NodeA == [kind |-> "table", x |-> 0, y |-> 0,
          table |-> [columns |-> <<"id", "x">>], enum |-> [values |-> <<>>]]
TargetXs == {-600, 364, 430, 600}
TargetYs == {0, 10, 120}

TargetNode(bx, by, kind) ==
  [kind |-> kind, x |-> bx, y |-> by,
   table |-> [columns |-> IF kind = "table" THEN <<"id">> ELSE <<>>],
   enum |-> [values |-> IF kind = "enum" THEN <<"v">> ELSE <<>>]]

\* a third table that touches the side of b the edge enters
AbuttingNode(a, b) ==
  LET ra == nodeRect(a)
      rb == nodeRect(b)
  IN [kind |-> "table",
      x |-> IF 2 * rb.x + rb.w >= 2 * ra.x + ra.w
            THEN rb.x - TABLE_CARD_W - 4 ELSE rb.x + rb.w + 4,
      y |-> rb.y,
      table |-> [columns |-> <<"id">>], enum |-> [values |-> <<>>]]

\* a third table that stands between NodeA and a target far to the right
BetweenNode ==
  [kind |-> "table", x |-> 600, y |-> 70,
   table |-> [columns |-> <<"id", "p", "q">>], enum |-> [values |-> <<>>]]

\* the scenes: position and kind of the target, the third node ("none", or
\* "self": the edge goes from NodeA to itself, or "abut": AbuttingNode, or
\* "between": BetweenNode), and
\* the columns the edge names (UNDEF: none, "zz": a column the table lacks)
Scenes ==
  [bx : TargetXs, by : TargetYs, kind : {"table"}, third : {"none"},
   sourceColumn : {"id"}, targetColumn : {"id"}]
  \cup [bx : TargetXs, by : {10}, kind : {"table"}, third : {"none"},
        sourceColumn : {"x"}, targetColumn : {"id"}]
  \cup [bx : TargetXs, by : TargetYs, kind : {"table"}, third : {"self"},
        sourceColumn : {"x"}, targetColumn : {"id"}]
  \cup [bx : {430}, by : {10}, kind : {"table"}, third : {"abut"},
        sourceColumn : {"id"}, targetColumn : {"id"}]
  \cup [bx : {600}, by : {120}, kind : {"table", "enum"}, third : {"none"},
        sourceColumn : {UNDEF, "zz"}, targetColumn : {UNDEF, "zz"}]
  \cup [bx : {1200}, by : {96}, kind : {"table"}, third : {"between"},
        sourceColumn : {"id"}, targetColumn : {"id"}]

\* the nodes of a scene and the edge routed in it
SceneNodes(sc) ==
  LET b == TargetNode(sc.bx, sc.by, sc.kind)
  IN IF sc.third = "abut" THEN <<NodeA, b, AbuttingNode(NodeA, b)>>
     ELSE IF sc.third = "between" THEN <<NodeA, b, BetweenNode>>
     ELSE <<NodeA, b>>

SceneEdge(sc) ==
  [source |-> 1, target |-> IF sc.third = "self" THEN 1 ELSE 2,
   sourceColumn |-> sc.sourceColumn, targetColumn |-> sc.targetColumn]

StartCell == Pt(snap(startWorld.x, ROUTE_GRID), snap(startWorld.y, ROUTE_GRID))
GoalCell == Pt(snap(endWorld.x, ROUTE_GRID), snap(endWorld.y, ROUTE_GRID))
Win == Window(StartCell, GoalCell, obstacles)

NoRoute == [found |-> FALSE, pts |-> <<>>]

\* edgePaths up to the call of routeManhattanAStar, and the set-up of the search
RouteInit ==
  /\ \E sc \in Scenes : nodes = SceneNodes(sc) /\ edge = SceneEdge(sc)
  /\ LET a == nodes[edge.source]
         b == nodes[edge.target]
     IN /\ startWorld = AnchorStart(nodeRect(a), nodeRect(b), AnchorOffset(a, edge.sourceColumn))
        /\ endWorld = AnchorEnd(nodeRect(a), nodeRect(b), AnchorOffset(b, edge.targetColumn))
  /\ obstacles = buildObstaclesForEdge([i \in DOMAIN nodes |-> nodeRect(nodes[i])],
                                       edge.source, edge.target)
  /\ sCell = nudgeOut(StartCell, Win, obstacles, ROUTE_GRID)
  /\ gCell = nudgeOut(GoalCell, Win, obstacles, ROUTE_GRID)
  /\ open = <<sCell>>
  /\ cameFrom = <<>>
  /\ gScore = (sCell :> 0)
  /\ fScore = (sCell :> manhattan(sCell, gCell))
  /\ iters = 0
  /\ pc = "search"
  /\ path = <<>>
  /\ k = sCell
  /\ route = NoRoute
  /\ pts = <<>>
  /\ labelPos = <<>>
  /\ renders = 1
  /\ prevPts = <<>>
  /\ SqlEmpty /\ EnumIdle /\ CallsIdle /\ ArrowIdle /\ ScanIdle /\ PanelsStart /\ AppIdle

\* one iteration of the main loop: take the best open cell, then either start
\* the back-tracking (goal reached) or relax its four neighbours
Expand ==
  /\ pc = "search"
  /\ open # <<>> /\ iters < ROUTE_MAX_ITERS
  /\ iters' = iters + 1
  /\ LET idx == bestIndex(open, fScore)
         current == open[idx]
         rest == SubSeq(open, 1, idx - 1) \o SubSeq(open, idx + 1, Len(open))
     IN IF current = gCell
        THEN /\ open' = rest
             /\ path' = <<current>>
             /\ k' = current
             /\ pc' = "backtrack"
             /\ UNCHANGED <<cameFrom, gScore, fScore>>
        ELSE LET st == RelaxAll([open |-> rest, cameFrom |-> cameFrom,
                                 gScore |-> gScore, fScore |-> fScore],
                                neighbors(current, ROUTE_GRID), current, gCell, Win, obstacles)
             IN /\ open' = st.open
                /\ cameFrom' = st.cameFrom
                /\ gScore' = st.gScore
                /\ fScore' = st.fScore
                /\ UNCHANGED <<path, k, pc>>
  /\ UNCHANGED <<nodes, edge, startWorld, endWorld, obstacles, sCell, gCell, route, pts,
                 labelPos, renders, prevPts>>
  /\ UNCHANGED <<sqlVars, enumVars, calls, arrowVars, scanVars, panelVars, appVars>>

\* the loop ends without the goal: return null
ReturnNull ==
  /\ pc = "search"
  /\ ~(open # <<>> /\ iters < ROUTE_MAX_ITERS)
  /\ route' = NoRoute
  /\ pc' = "routed"
  /\ UNCHANGED <<nodes, edge, startWorld, endWorld, obstacles, sCell, gCell,
                 open, cameFrom, gScore, fScore, iters, path, k, pts,
                 labelPos, renders, prevPts>>
  /\ UNCHANGED <<sqlVars, enumVars, calls, arrowVars, scanVars, panelVars, appVars>>

\* one iteration of `while (cameFrom.has(k))`
Backtrack ==
  /\ pc = "backtrack"
  /\ k \in DOMAIN cameFrom
  /\ path' = Append(path, cameFrom[k])
  /\ k' = cameFrom[k]
  /\ UNCHANGED <<nodes, edge, startWorld, endWorld, obstacles, sCell, gCell,
                 open, cameFrom, gScore, fScore, iters, pc, route, pts,
                 labelPos, renders, prevPts>>
  /\ UNCHANGED <<sqlVars, enumVars, calls, arrowVars, scanVars, panelVars, appVars>>

\* the parent chain ended: reverse, put the exact anchors, compress, return
ReturnPath ==
  /\ pc = "backtrack"
  /\ k \notin DOMAIN cameFrom
  /\ route' = [found |-> TRUE, pts |-> ReconstructPoints(Reverse(path), startWorld, endWorld)]
  /\ pc' = "routed"
  /\ UNCHANGED <<nodes, edge, startWorld, endWorld, obstacles, sCell, gCell,
                 open, cameFrom, gScore, fScore, iters, path, k, pts,
                 labelPos, renders, prevPts>>
  /\ UNCHANGED <<sqlVars, enumVars, calls, arrowVars, scanVars, panelVars, appVars>>

\* edgePaths after the call: the fallback for null, the right-angle fix, the label
EmitEdge ==
  /\ pc = "routed"
  /\ pts' = enforceRightAngleEndpoints(
              IF route.found THEN route.pts ELSE FallbackPath(startWorld, endWorld))
  /\ labelPos' = LabelPos(pts')
  /\ pc' = "done"
  /\ UNCHANGED <<nodes, edge, startWorld, endWorld, obstacles, sCell, gCell,
                 open, cameFrom, gScore, fScore, iters, path, k, route,
                 renders, prevPts>>
  /\ UNCHANGED <<sqlVars, enumVars, calls, arrowVars, scanVars, panelVars, appVars>>

\* the memo of edgePaths is computed again for the same nodes and edges (a
\* render with new but equal arrays): every local of routeManhattanAStar is
\* created afresh, nothing of the previous call is read
Rerender ==
  /\ pc = "done"
  /\ renders = 1
  /\ renders' = 2
  /\ prevPts' = pts
  /\ LET a == nodes[edge.source]
         b == nodes[edge.target]
         start == AnchorStart(nodeRect(a), nodeRect(b), AnchorOffset(a, edge.sourceColumn))
         end == AnchorEnd(nodeRect(a), nodeRect(b), AnchorOffset(b, edge.targetColumn))
         obs == buildObstaclesForEdge([i \in DOMAIN nodes |-> nodeRect(nodes[i])],
                                      edge.source, edge.target)
         sc == Pt(snap(start.x, ROUTE_GRID), snap(start.y, ROUTE_GRID))
         gc == Pt(snap(end.x, ROUTE_GRID), snap(end.y, ROUTE_GRID))
         win == Window(sc, gc, obs)
         s == nudgeOut(sc, win, obs, ROUTE_GRID)
         g == nudgeOut(gc, win, obs, ROUTE_GRID)
     IN /\ startWorld' = start
        /\ endWorld' = end
        /\ obstacles' = obs
        /\ sCell' = s
        /\ gCell' = g
        /\ open' = <<s>>
        /\ cameFrom' = <<>>
        /\ gScore' = (s :> 0)
        /\ fScore' = (s :> manhattan(s, g))
        /\ k' = s
  /\ iters' = 0
  /\ pc' = "search"
  /\ path' = <<>>
  /\ route' = NoRoute
  /\ pts' = <<>>
  /\ labelPos' = <<>>
  /\ UNCHANGED <<nodes, edge>>
  /\ UNCHANGED <<sqlVars, enumVars, calls, arrowVars, scanVars, panelVars, appVars>>

RouteNext == Expand \/ ReturnNull \/ Backtrack \/ ReturnPath \/ EmitEdge \/ Rerender

SpecRoute == RouteInit /\ [][RouteNext]_vars

\* ------------------------------------------ a CREATE TYPE statement, typed
EnumChars == {"a", "'", ")"}

\* a literal as SQL text: quoted, every quote inside it doubled
RECURSIVE Doubled(_)
Doubled(lit) ==
  IF lit = <<>> THEN <<>>
  ELSE (IF Head(lit) = QUOTE THEN <<QUOTE, QUOTE>> ELSE <<Head(lit)>>) \o Doubled(Tail(lit))

RECURSIVE ValueList(_)
ValueList(lits) ==
  IF lits = <<>> THEN <<>>
  ELSE <<QUOTE>> \o Doubled(Head(lits)) \o <<QUOTE>>
       \o (IF Len(lits) > 1 THEN <<",">> ELSE <<>>) \o ValueList(Tail(lits))

\* the text after `create type t as enum`
EnumText(lits) == <<"(">> \o ValueList(lits) \o <<")", ";">>

EnumInit ==
  /\ enumLits = <<>>
  /\ enumSql = EnumText(<<>>)
  /\ enums = parseEnumTypes(enumSql)
  /\ SqlEmpty /\ RouteIdle /\ CallsIdle /\ ArrowIdle /\ ScanIdle /\ PanelsStart /\ AppIdle

\* the user adds a literal to the value list
NewLiteral ==
  /\ Len(enumLits) < MaxLits
  /\ enumLits' = Append(enumLits, <<>>)
  /\ enumSql' = EnumText(enumLits')
  /\ enums' = parseEnumTypes(enumSql')
  /\ UNCHANGED <<sqlVars, routeVars, calls, arrowVars, scanVars, panelVars, appVars>>

\* the user types one more character into the last literal
TypeChar(c) ==
  /\ enumLits # <<>>
  /\ Len(Last(enumLits)) < MaxLitLen
  /\ enumLits' = [enumLits EXCEPT ![Len(enumLits)] = Append(@, c)]
  /\ enumSql' = EnumText(enumLits')
  /\ enums' = parseEnumTypes(enumSql')
  /\ UNCHANGED <<sqlVars, routeVars, calls, arrowVars, scanVars, panelVars, appVars>>

EnumNext == NewLiteral \/ \E c \in EnumChars : TypeChar(c)

SpecEnum == EnumInit /\ [][EnumNext]_vars

\* --------------------------------- parseSqlToGraph, invoked again and again
\* the table definitions of the texts handed to the extraction
CallTables ==
  {[name |-> "a", items |-> <<"pkcol">>],
   [name |-> "b", items |-> <<"pkcol", "refcol">>],
   [name |-> "b", items |-> <<"col", "fk">>]}

CallDefs == {<<d>> : d \in CallTables} \cup {<<d, e>> : d \in CallTables, e \in CallTables}

RECURSIVE ItemList(_)
ItemList(items) ==
  IF items = <<>> THEN <<>>
  ELSE ItemText(Head(items)) \o (IF Len(items) > 1 THEN <<",">> ELSE <<>>)
       \o ItemList(Tail(items))

RECURSIVE SqlText(_)
SqlText(ds) ==
  IF ds = <<>> THEN <<>>
  ELSE <<"create", "table", Head(ds).name, "(">> \o ItemList(Head(ds).items)
       \o <<")", ";">> \o SqlText(Tail(ds))

\* an invocation that keeps the relations of the invocation before it
InvokeParse_Accumulating(text) ==
  LET g == parseSqlToGraph(text)
  IN IF calls = <<>> THEN g
     ELSE [g EXCEPT !.relations = Last(calls).result.relations \o @]

\* one invocation: every collection and every RegExp object is created inside
\* the call, so the result is read from the argument alone
InvokeParse(text) == parseSqlToGraph(text)

CallsInit ==
  /\ calls = <<>>
  /\ SqlEmpty /\ RouteIdle /\ EnumIdle /\ ArrowIdle /\ ScanIdle /\ PanelsStart /\ AppIdle

Invoke(ds) ==
  /\ Len(calls) < MaxCalls
  /\ calls' = Append(calls, [defs |-> ds, text |-> SqlText(ds),
                             result |-> InvokeParse(SqlText(ds))])
  /\ UNCHANGED <<sqlVars, routeVars, enumVars, arrowVars, scanVars, panelVars, appVars>>

CallsNext == \E ds \in CallDefs : Invoke(ds)

SpecCalls == CallsInit /\ [][CallsNext]_vars

\* ------------------------------------- arrowHeadPoints, applied to a point list
ArrowCoords == {0, 8, 20}

ArrowInit ==
  /\ arrowPts = <<>>
  /\ head = arrowHeadPoints(arrowPts)
  /\ SqlEmpty /\ RouteIdle /\ EnumIdle /\ CallsIdle /\ ScanIdle /\ PanelsStart /\ AppIdle

\* the path grows by one point and its arrowhead is computed again
AppendPoint(p) ==
  /\ Len(arrowPts) < MaxPts
  /\ arrowPts' = Append(arrowPts, p)
  /\ head' = arrowHeadPoints(arrowPts')
  /\ UNCHANGED <<sqlVars, routeVars, enumVars, calls, scanVars, panelVars, appVars>>

ArrowNext == \E x \in ArrowCoords, y \in ArrowCoords : AppendPoint(Pt(x, y))

SpecArrow == ArrowInit /\ [][ArrowNext]_vars

\* ------------------------- parseCreateTableBlocks and splitTopLevelComma at work
\* the characters typed into the body of the first table
BodyChars == {"(", ")", ",", "'", "\"", "a", " "}

RECURSIVE Bodies(_)
Bodies(n) ==
  IF n = 0 THEN {<<>>}
  ELSE Bodies(n - 1) \cup {Append(b, c) : b \in {x \in Bodies(n - 1) : Len(x) = n - 1}, c \in BodyChars}

\* the text: a first table with the typed body, then a second table
ScanTextOf(body) ==
  <<"create", "table", "t", "(">> \o body
    \o <<")", ";", "create", "table", "b", "(", "a", ")">>

ScanInit ==
  /\ scanBody \in Bodies(MaxBody)
  /\ scanText = ScanTextOf(scanBody)
  /\ scanI = 1
  /\ scanPrevI = 0
  /\ scanOut = <<>>
  /\ scanItems = <<>>
  /\ scanPc = "loop"
  /\ SqlEmpty /\ RouteIdle /\ EnumIdle /\ CallsIdle /\ ArrowIdle /\ PanelsStart /\ AppIdle

\* one iteration of the loop of parseCreateTableBlocks
ScanIteration ==
  /\ scanPc = "loop"
  /\ scanI <= Len(scanText)
  /\ LET r == BlockAt(scanText, scanI)
     IN IF r.stop
        THEN /\ scanPc' = "done"
             /\ UNCHANGED <<scanI, scanPrevI, scanOut>>
        ELSE /\ scanPrevI' = scanI
             /\ scanI' = r.i
             /\ scanOut' = scanOut \o r.out
             /\ UNCHANGED scanPc
  /\ UNCHANGED <<scanText, scanBody, scanItems>>
  /\ UNCHANGED <<sqlVars, routeVars, enumVars, calls, arrowVars, panelVars, appVars>>

\* the loop condition fails: return out
ScanExit ==
  /\ scanPc = "loop"
  /\ scanI > Len(scanText)
  /\ scanPc' = "done"
  /\ UNCHANGED <<scanText, scanBody, scanI, scanPrevI, scanOut, scanItems>>
  /\ UNCHANGED <<sqlVars, routeVars, enumVars, calls, arrowVars, panelVars, appVars>>

\* parseSqlToGraph splits the body of every block into its items
SplitBodies ==
  /\ scanPc = "done"
  /\ scanItems' = [b \in DOMAIN scanOut |-> splitTopLevelComma(scanOut[b].body)]
  /\ scanPc' = "split"
  /\ UNCHANGED <<scanText, scanBody, scanI, scanPrevI, scanOut>>
  /\ UNCHANGED <<sqlVars, routeVars, enumVars, calls, arrowVars, panelVars, appVars>>

ScanNext == ScanIteration \/ ScanExit \/ SplitBodies

SpecScan == ScanInit /\ [][ScanNext]_vars

\* --------------------------------------------- the splitters (useDragResize)
\* positions of the mouse, in percent of window.innerWidth
MouseXs == {10, 30, 40, 70, 75}

PanelsInit ==
  /\ PanelsStart
  /\ SqlEmpty /\ RouteIdle /\ EnumIdle /\ CallsIdle /\ ArrowIdle /\ ScanIdle /\ AppIdle

\* mouse down on the left splitter, which is rendered while the panel is open
\* and stands at the right edge of the left panel
startLeftDrag(startX) ==
  /\ leftOpen
  /\ startX = mouseX /\ mouseX = leftWidth
  /\ dragLeftRef' = [active |-> TRUE, startX |-> startX, startWidth |-> leftWidth]
  /\ UNCHANGED <<leftWidth, rightWidth, leftOpen, rightOpen, dragRightRef, mouseX>>
  /\ UNCHANGED <<sqlVars, routeVars, enumVars, calls, arrowVars, scanVars, appVars>>

\* mouse down on the right splitter, at the left edge of the right panel
startRightDrag(startX) ==
  /\ rightOpen
  /\ startX = mouseX /\ mouseX = 100 - rightWidth
  /\ dragRightRef' = [active |-> TRUE, startX |-> startX, startWidth |-> rightWidth]
  /\ UNCHANGED <<leftWidth, rightWidth, leftOpen, rightOpen, dragLeftRef, mouseX>>
  /\ UNCHANGED <<sqlVars, routeVars, enumVars, calls, arrowVars, scanVars, appVars>>

\* the mousemove listener; both branches read the widths of the last render
onMouseMove(clientX) ==
  /\ mouseX' = clientX
  /\ leftWidth' =
       IF dragLeftRef.active
       THEN Min({80 - rightWidth,
                 Max({25, dragLeftRef.startWidth + (clientX - dragLeftRef.startX)})})
       ELSE leftWidth
  /\ rightWidth' =
       IF dragRightRef.active
       THEN Min({80 - leftWidth,
                 Max({10, dragRightRef.startWidth + (dragRightRef.startX - clientX)})})
       ELSE rightWidth
  /\ UNCHANGED <<leftOpen, rightOpen, dragLeftRef, dragRightRef>>
  /\ UNCHANGED <<sqlVars, routeVars, enumVars, calls, arrowVars, scanVars, appVars>>

onMouseUp ==
  /\ dragLeftRef' = NoDrag
  /\ dragRightRef' = NoDrag
  /\ UNCHANGED <<leftWidth, rightWidth, leftOpen, rightOpen, mouseX>>
  /\ UNCHANGED <<sqlVars, routeVars, enumVars, calls, arrowVars, scanVars, appVars>>

\* the buttons that hide and show the panels
setLeftOpen(v) ==
  /\ leftOpen' = v
  /\ UNCHANGED <<leftWidth, rightWidth, rightOpen, dragLeftRef, dragRightRef, mouseX>>
  /\ UNCHANGED <<sqlVars, routeVars, enumVars, calls, arrowVars, scanVars, appVars>>

setRightOpen(v) ==
  /\ rightOpen' = v
  /\ UNCHANGED <<leftWidth, rightWidth, leftOpen, dragLeftRef, dragRightRef, mouseX>>
  /\ UNCHANGED <<sqlVars, routeVars, enumVars, calls, arrowVars, scanVars, appVars>>

middleWidth == 100 - (IF leftOpen THEN leftWidth ELSE 0) - (IF rightOpen THEN rightWidth ELSE 0)

PanelsNext ==
  \/ \E x \in MouseXs : startLeftDrag(x)
  \/ \E x \in MouseXs : startRightDrag(x)
  \/ \E x \in MouseXs : onMouseMove(x)
  \/ onMouseUp
  \/ \E v \in BOOLEAN : setLeftOpen(v)
  \/ \E v \in BOOLEAN : setRightOpen(v)

SpecPanels == PanelsInit /\ [][PanelsNext]_vars

\* ------------------------------------- the diagram, edited, saved and loaded
\* the texts the editor holds
AppDefs ==
  {<<>>,
   <<[name |-> "a", items |-> <<"pkcol">>]>>,
   <<[name |-> "a", items |-> <<"pkcol", "col">>]>>,
   <<[name |-> "b", items |-> <<"ref">>], [name |-> "a", items |-> <<"pkcol">>]>>}

AppTexts == {SqlText(ds) : ds \in AppDefs}

\* where a node is dropped, and the viewport after panning and zooming
DropPoints == {Pt(40, 40)}
PannedViewport == [x |-> 0 - 50, y |-> 20, zoom |-> 2]

\* files not written by exportBp: positions for table a with a text, and the
\* same without a viewport
ForeignFiles ==
  {[version |-> 1, sql |-> SqlText(<<[name |-> "a", items |-> <<"pkcol">>]>>),
    leftWidth |-> 30, hasPositions |-> TRUE, positions |-> ("a" :> Pt(900, 500)),
    hasViewport |-> hv, viewport |-> InitialViewport] : hv \in BOOLEAN}

Snapshot ==
  [sql |-> sql, nodes |-> diagramNodes, positions |-> positionsRef, viewport |-> viewportRef]

\* the page after its first render: useState(DEFAULT_SQL), an empty cache
AppInit ==
  /\ sql \in AppTexts
  /\ defs = <<>>
  /\ graph = parseSqlToGraph(sql)
  /\ positionsRef = <<>>
  /\ diagramNodes = DiagramNodes(graph, positionsRef)
  /\ viewportRef = InitialViewport
  /\ viewportSnapshot = InitialViewport
  /\ bpFile = NoFile
  /\ lastStep = "mount"
  /\ lastFile = NoFile
  /\ before = NoSnapshot
  /\ steps = 0
  /\ RouteIdle /\ EnumIdle /\ CallsIdle /\ ArrowIdle /\ ScanIdle /\ PanelsStart

\* the editor changes the text: the graph is extracted and the nodes rebuilt
setSql(text) ==
  /\ steps < MaxSteps /\ steps' = steps + 1
  /\ text # sql
  /\ sql' = text
  /\ graph' = parseSqlToGraph(text)
  /\ diagramNodes' = DiagramNodes(graph', positionsRef)
  /\ lastStep' = "edit"
  /\ before' = Snapshot
  /\ UNCHANGED <<defs, positionsRef, viewportRef, viewportSnapshot, bpFile, lastFile>>
  /\ UNCHANGED <<routeVars, enumVars, calls, arrowVars, scanVars, panelVars>>

\* a node is dragged: onMove calls updateNodes with the moved copy of nodes
updateNodes(i, pos) ==
  /\ steps < MaxSteps /\ steps' = steps + 1
  /\ i \in DOMAIN diagramNodes
  /\ LET next == [diagramNodes EXCEPT ![i].x = pos.x, ![i].y = pos.y]
     IN /\ diagramNodes' = next
        /\ positionsRef' = NodePositions(next) @@ positionsRef
  /\ lastStep' = "drag"
  /\ before' = Snapshot
  /\ UNCHANGED <<sql, defs, graph, viewportRef, viewportSnapshot, bpFile, lastFile>>
  /\ UNCHANGED <<routeVars, enumVars, calls, arrowVars, scanVars, panelVars>>

\* onViewportChange={(vp) => (viewportRef.current = vp)}
onViewportChange(vp) ==
  /\ steps < MaxSteps /\ steps' = steps + 1
  /\ vp # viewportRef
  /\ viewportRef' = vp
  /\ lastStep' = "viewport"
  /\ before' = Snapshot
  /\ UNCHANGED <<sql, defs, graph, diagramNodes, positionsRef, viewportSnapshot, bpFile,
                 lastFile>>
  /\ UNCHANGED <<routeVars, enumVars, calls, arrowVars, scanVars, panelVars>>

exportBp ==
  /\ steps < MaxSteps /\ steps' = steps + 1
  /\ bpFile' = ExportedFile(sql, leftWidth, diagramNodes, viewportRef)
  /\ lastStep' = "export"
  /\ before' = Snapshot
  /\ UNCHANGED <<sql, defs, graph, diagramNodes, positionsRef, viewportRef,
                 viewportSnapshot, lastFile>>
  /\ UNCHANGED <<routeVars, enumVars, calls, arrowVars, scanVars, panelVars>>

\* importBp reads a file; setSql(data.sql) rebuilds the nodes when the text
\* differs from the one loaded, and renders nothing when it is the same
importBp(data) ==
  /\ steps < MaxSteps /\ steps' = steps + 1
  /\ lastFile' = data
  /\ before' = Snapshot
  /\ IF ~Accepts(data)
     THEN /\ lastStep' = "rejected"
          /\ UNCHANGED <<sql, graph, diagramNodes, positionsRef, viewportRef,
                         viewportSnapshot>>
     ELSE /\ lastStep' = "imported"
          /\ positionsRef' = recordToMap(data.positions)
          /\ viewportRef' = IF data.hasViewport THEN data.viewport ELSE viewportRef
          /\ viewportSnapshot' = IF data.hasViewport THEN data.viewport ELSE viewportSnapshot
          /\ sql' = data.sql
          /\ IF data.sql # sql
             THEN /\ graph' = parseSqlToGraph(data.sql)
                  /\ diagramNodes' = DiagramNodes(graph', positionsRef')
             ELSE UNCHANGED <<graph, diagramNodes>>
  /\ UNCHANGED <<defs, bpFile>>
  /\ UNCHANGED <<routeVars, enumVars, calls, arrowVars, scanVars, panelVars>>

AppNext ==
  \/ \E text \in AppTexts : setSql(text)
  \/ \E i \in 1..2, pos \in DropPoints : updateNodes(i, pos)
  \/ onViewportChange(PannedViewport)
  \/ exportBp
  \/ \E data \in {bpFile} \cup ForeignFiles : importBp(data)

SpecApp == AppInit /\ [][AppNext]_vars

\* ---------------------------------------------- what the typed text declares
\* every definition typed so far has been closed
WellFormed == \A i \in DOMAIN defs : defs[i].closed

ColumnKinds == {"pkcol", "col", "ref", "refcol"}

\* the column an item defines
ColumnOfKind(kind) == IF kind = "pkcol" THEN "uid" ELSE "x"

\* the columns a clause names
ColumnsUsedBy(kind) ==
  CASE kind \in {"pk", "fk", "cfk"} -> {"x"}
    [] kind \in {"pk2", "fk2"} -> {"x", "uid"}
    [] OTHER -> {}

DeclaredColumns(d) ==
  LET cols == SelectSeq(d.items, LAMBDA kind : kind \in ColumnKinds)
  IN [i \in DOMAIN cols |-> ColumnOfKind(cols[i])]

\* a definition SQL accepts: distinct column names, every clause names columns
\* of the table, at most one primary key
ValidDef(d) ==
  LET cols == DeclaredColumns(d)
  IN /\ d.closed
     /\ \A i, j \in DOMAIN cols : cols[i] = cols[j] => i = j
     /\ \A q \in DOMAIN d.items : ColumnsUsedBy(d.items[q]) \subseteq Range(cols)
     /\ Cardinality({q \in DOMAIN d.items : d.items[q] \in {"pkcol", "pk", "pk2"}}) <= 1

AllValid == \A i \in DOMAIN defs : ValidDef(defs[i])

DeclaredNames == {defs[i].name : i \in DOMAIN defs}

UniqueNames == \A i, j \in DOMAIN defs : defs[i].name = defs[j].name => i = j

FkKinds == {"ref", "refcol", "fk", "cfk"}

\* the single-column foreign-key clause of an item: column, target, target column
FkClause(kind) ==
  CASE kind = "ref" -> [col |-> "x", table |-> "a", toCol |-> UNDEF]
    [] kind = "refcol" -> [col |-> "x", table |-> "b", toCol |-> "uid"]
    [] kind = "fk" -> [col |-> "x", table |-> "b", toCol |-> UNDEF]
    [] kind = "cfk" -> [col |-> "x", table |-> "a", toCol |-> "x"]

\* the foreign-key clauses of definition d whose target is declared, in text order
DeclaredFks(d) ==
  LET qs == SelectSeq(d.items,
                      LAMBDA kind : kind \in FkKinds /\ FkClause(kind).table \in DeclaredNames)
  IN [i \in DOMAIN qs |-> [fromTable |-> d.name] @@ FkClause(qs[i])]

ExpectedRelations == Concat([i \in DOMAIN defs |-> DeclaredFks(defs[i])])

\* the relations of the graph that come from single-column clauses
ClauseRelations ==
  SelectSeq(graph.relations, LAMBDA r : r.fromColumn \notin {"foreign", "constraint"})

\* the primary key column a definition declares, or UNDEF
DeclaredPk(d) ==
  LET qs == {q \in DOMAIN d.items : d.items[q] \in {"pkcol", "pk", "pk2"}}
  IN IF qs = {} THEN UNDEF
     ELSE IF d.items[Min(qs)] = "pkcol" THEN "uid" ELSE "x"

DefNamed(n) == defs[CHOOSE i \in DOMAIN defs : defs[i].name = n]

\* ------------------------------------------------------------------ claims
\* C1: every relation of the returned graph has a fromTable and a toTable that
\* are names of returned tables; a capture whose table is missing is dropped.
C1_RelationsReferenceTables ==
  \A i \in DOMAIN graph.relations :
    /\ graph.relations[i].fromTable \in TableNames(graph.tables)
    /\ graph.relations[i].toTable \in TableNames(graph.tables)

\* a text with a kept relation and a foreign key to a table that is not defined
C1_Witness ==
  /\ WellFormed
  /\ graph.relations # <<>>
  /\ \E i \in DOMAIN defs : \E q \in DOMAIN defs[i].items :
       /\ defs[i].items[q] \in FkKinds
       /\ FkClause(defs[i].items[q]).table \notin DeclaredNames

\* C4: a valid table definition with N columns yields exactly one table with
\* exactly those N columns in source order, whatever constraint clauses it has.
C4_OneTablePerDefinition ==
  (WellFormed /\ AllValid) =>
    /\ Len(graph.tables) = Len(defs)
    /\ \A i \in DOMAIN defs :
         /\ graph.tables[i].name = defs[i].name
         /\ [c \in DOMAIN graph.tables[i].columns |-> graph.tables[i].columns[c].name]
              = DeclaredColumns(defs[i])

\* C5: a relation whose clause omitted the target column has the target
\* table's primary key column as toColumn, or 'id' when it declares none.
C5_OmittedTargetColumn ==
  (WellFormed /\ AllValid /\ UniqueNames /\ Len(ClauseRelations) = Len(ExpectedRelations)) =>
    \A i \in DOMAIN ExpectedRelations :
      ExpectedRelations[i].toCol = UNDEF =>
        ClauseRelations[i].toColumn =
          (IF DeclaredPk(DefNamed(ExpectedRelations[i].table)) # UNDEF
           THEN DeclaredPk(DefNamed(ExpectedRelations[i].table)) ELSE "id")

\* C6: every single-column foreign-key clause whose target table is extracted
\* yields exactly one relation with its table, column, target (and target
\* column when given), and the relations are in the order of the clauses.
C6_OneRelationPerClause ==
  WellFormed =>
    /\ Len(ClauseRelations) = Len(ExpectedRelations)
    /\ \A i \in DOMAIN ExpectedRelations :
         /\ ClauseRelations[i].fromTable = ExpectedRelations[i].fromTable
         /\ ClauseRelations[i].fromColumn = ExpectedRelations[i].col
         /\ ClauseRelations[i].toTable = ExpectedRelations[i].table
         /\ ExpectedRelations[i].toCol # UNDEF =>
              ClauseRelations[i].toColumn = ExpectedRelations[i].toCol

\* the end-to-end example: two tables with primary keys, the second with a
\* column-level reference to a column of the first: 2 tables and 1 relation
C6_Witness ==
  /\ WellFormed
  /\ Len(defs) = 2
  /\ defs[1] = [name |-> "b", items |-> <<"pkcol">>, closed |-> TRUE]
  /\ defs[2] = [name |-> "a", items |-> <<"pkcol", "refcol">>, closed |-> TRUE]
  /\ Len(graph.tables) = 2
  /\ graph.relations = <<Relation("a", "x", "b", "uid")>>

\* C7: every column flagged primary key is also flagged not-null.
C7_PrimaryKeyIsNotNull ==
  \A i \in DOMAIN graph.tables : \A c \in DOMAIN graph.tables[i].columns :
    graph.tables[i].columns[c].isPrimaryKey => graph.tables[i].columns[c].isNotNull

\* a primary key column whose definition does not say NOT NULL
C7_Witness ==
  \E i \in DOMAIN graph.tables : \E c \in DOMAIN graph.tables[i].columns :
    /\ graph.tables[i].columns[c].isPrimaryKey
    /\ graph.tables[i].columns[c].name = "uid"

\* the first definition that is not closed, or 0
FirstUnclosed ==
  LET unclosed == {i \in DOMAIN defs : ~defs[i].closed}
  IN IF unclosed = {} THEN 0 ELSE Min(unclosed)

\* C8: a CREATE TABLE whose parenthesis is never closed contributes no table,
\* no column and no relation: only the definitions before it are extracted.
C8_UnclosedTableIsSkipped ==
  FirstUnclosed # 0 =>
    /\ Len(graph.tables) = FirstUnclosed - 1
    /\ \A i \in DOMAIN graph.relations :
         \E j \in 1..(FirstUnclosed - 1) : graph.relations[i].fromTable = defs[j].name

\* C9: no two entries of the returned tables list have the same name.
C9_TableNamesUnique ==
  \A i, j \in DOMAIN graph.tables :
    graph.tables[i].name = graph.tables[j].name => i = j

\* the two points differ in exactly one coordinate
AxisAligned(p, q) == (p.x = q.x) # (p.y = q.y)

\* C2: every pair of consecutive points of an emitted path differs in exactly
\* one coordinate, whatever the number of points of the path.
C2_SegmentsAxisAligned ==
  pc = "done" => \A i \in 1..(Len(pts) - 1) : AxisAligned(pts[i], pts[i + 1])

\* C3: the main loop runs at most ROUTE_MAX_ITERS times, and the parent map is
\* well-founded: the start cell has no parent and every parent is strictly
\* closer to the start, so the back-tracking walk never takes more steps than
\* the goal's distance and ends at the start cell.
C3_SearchTerminates ==
  /\ iters <= ROUTE_MAX_ITERS
  /\ sCell \notin DOMAIN cameFrom
  /\ \A c \in DOMAIN cameFrom : gScore[cameFrom[c]] < gScore[c]
  /\ pc = "backtrack" => Len(path) <= gScore[gCell] + 1
  /\ (pc = "backtrack" /\ k \notin DOMAIN cameFrom) => k = sCell

\* the back-tracking loop has walked more than three parents back to the start
C3_Witness ==
  /\ pc = "backtrack"
  /\ k = sCell
  /\ Len(path) > 4

\* C10: when the search returns no path the edge is emitted with the path
\* start -> (midX, start.y) -> (midX, end.y) -> end, collinear points compressed.
C10_FallbackPath ==
  (pc = "done" /\ ~route.found) =>
    LET midX == (startWorld.x + endWorld.x) \div 2
    IN pts = IF startWorld.y = endWorld.y \/ startWorld.x = endWorld.x
             THEN <<startWorld, endWorld>>
             ELSE <<startWorld, Pt(midX, startWorld.y), Pt(midX, endWorld.y), endWorld>>

\* an edge emitted after a failed search, with anchors in different rows
C10_Witness ==
  /\ pc = "done"
  /\ ~route.found
  /\ startWorld.y # endWorld.y
  /\ Len(pts) = 4

\* the cell lies in no obstacle rectangle and inside the search window w
FreeIn(c, w) ==
  /\ \A i \in DOMAIN obstacles :
       ~(c.x >= obstacles[i].x /\ c.x <= obstacles[i].x + obstacles[i].w
         /\ c.y >= obstacles[i].y /\ c.y <= obstacles[i].y + obstacles[i].h)
  /\ c.x >= w.minX /\ c.x <= w.maxX /\ c.y >= w.minY /\ c.y <= w.maxY

FreeCell(c) == FreeIn(c, Win)

InObstacle(c) ==
  \E i \in DOMAIN obstacles :
    /\ c.x >= obstacles[i].x /\ c.x <= obstacles[i].x + obstacles[i].w
    /\ c.y >= obstacles[i].y /\ c.y <= obstacles[i].y + obstacles[i].h

\* the six offsets tried for a blocked cell, in order of preference
NudgeOffsets ==
  <<Pt(ROUTE_GRID, 0), Pt(0 - ROUTE_GRID, 0), Pt(0, ROUTE_GRID), Pt(0, 0 - ROUTE_GRID),
    Pt(2 * ROUTE_GRID, 0), Pt(0 - 2 * ROUTE_GRID, 0)>>

\* cell `used` is what the claim allows for the snapped cell `snapped`
NudgedAsSpecified(snapped, used) ==
  /\ ~InObstacle(used)
  /\ IF ~InObstacle(snapped) THEN used = snapped
     ELSE \E i \in DOMAIN NudgeOffsets :
            /\ used = Pt(snapped.x + NudgeOffsets[i].x, snapped.y + NudgeOffsets[i].y)
            /\ FreeCell(used)
            /\ \A j \in 1..(i - 1) :
                 ~FreeCell(Pt(snapped.x + NudgeOffsets[j].x, snapped.y + NudgeOffsets[j].y))

\* C11: the cell the search starts from and the cell it searches for lie in no
\* obstacle rectangle; a blocked snapped cell is replaced by the first of the
\* six candidate cells that is in bounds and unblocked.
C11_SearchCellsOutsideObstacles ==
  pc # "idle" =>
    /\ NudgedAsSpecified(StartCell, sCell)
    /\ NudgedAsSpecified(GoalCell, gCell)

OnGrid(c) == c.x % ROUTE_GRID = 0 /\ c.y % ROUTE_GRID = 0

\* C12: no cell added to the open set after the start cell is blocked or out
\* of the search window, and every interior point of a returned path is a
\* grid cell outside every obstacle and inside the window.
C12_PathIsCollisionFree ==
  LET w == [minX |-> Win.minX, minY |-> Win.minY, maxX |-> Win.maxX, maxY |-> Win.maxY]
  IN /\ \A i \in DOMAIN open : open[i] # sCell => FreeIn(open[i], w)
     /\ \A c \in DOMAIN cameFrom : FreeIn(c, w)
     /\ route.found =>
          \A i \in 2..(Len(route.pts) - 1) : OnGrid(route.pts[i]) /\ FreeIn(route.pts[i], w)

\* a returned path with interior points, found around an obstacle: the edge
\* from NodeA to itself leaves on the right and enters on the left
C12_Witness ==
  /\ pc = "routed"
  /\ route.found
  /\ edge.source = edge.target
  /\ Len(route.pts) >= 4

\* C13: every emitted path has at least two points, starts at the exact source
\* anchor and ends at the exact target anchor.
C13_PathJoinsTheAnchors ==
  pc = "done" =>
    /\ Len(pts) >= 2
    /\ pts[1] = startWorld
    /\ pts[Len(pts)] = endWorld

\* no blocked cell in the rectangle spanned by the start and goal search cells
FreeBetween ==
  \A x \in Min({sCell.x, gCell.x})..Max({sCell.x, gCell.x}) :
    \A y \in Min({sCell.y, gCell.y})..Max({sCell.y, gCell.y}) :
      (x % ROUTE_GRID = 0 /\ y % ROUTE_GRID = 0) => ~InObstacle(Pt(x, y))

\* the number of corners enforceRightAngleEndpoints inserts into a raw path
ForcedCorners(raw) ==
  IF Len(raw) < 4 THEN 0
  ELSE (IF raw[1].x # raw[2].x /\ raw[1].y # raw[2].y THEN 1 ELSE 0)
       + (IF raw[Len(raw)].x # raw[Len(raw) - 1].x /\ raw[Len(raw)].y # raw[Len(raw) - 1].y
          THEN 1 ELSE 0)

\* C14: with no blocked cell between the two search cells the emitted path has
\* at most one bend (interior point) besides the corners forced at its ends.
C14_AtMostOneBend ==
  (pc = "done" /\ route.found /\ FreeBetween) =>
    (Len(pts) - 2) - ForcedCorners(route.pts) <= 1

\* C17: bestIndex picks the first open cell among those of lowest f-score, a
\* search starts from nothing but its start cell, and a second routing of the
\* same nodes and edge emits the same points as the first.
C17_RoutingIsDeterministic ==
  /\ (pc = "search" /\ open # <<>>) =>
       LET i == bestIndex(open, fScore)
       IN /\ \A j \in DOMAIN open : fScore[open[j]] >= fScore[open[i]]
          /\ \A j \in 1..(i - 1) : fScore[open[j]] > fScore[open[i]]
  /\ (pc = "search" /\ iters = 0) =>
       /\ open = <<sCell>> /\ cameFrom = <<>>
       /\ gScore = (sCell :> 0) /\ fScore = (sCell :> manhattan(sCell, gCell))
  /\ (pc = "done" /\ renders = 2) => pts = prevPts

\* the second routing of an edge has emitted a path with bends
C17_Witness ==
  /\ pc = "done"
  /\ renders = 2
  /\ route.found
  /\ Len(pts) >= 4

\* C18: the edge leaves the right side of the source and enters the left side
\* of the target when the target's horizontal center is >= the source's, and
\* the two sides mirror otherwise; an edge of a node to itself included.
C18_AnchorSides ==
  pc # "idle" =>
    LET a == nodeRect(nodes[edge.source])
        b == nodeRect(nodes[edge.target])
    IN IF 2 * b.x + b.w >= 2 * a.x + a.w
       THEN startWorld.x = a.x + a.w /\ endWorld.x = b.x
       ELSE startWorld.x = a.x /\ endWorld.x = b.x + b.w

\* an edge from NodeA to itself, and an edge to a target on the left
C18_Witness ==
  /\ pc = "done"
  /\ \/ edge.source = edge.target
     \/ nodes[edge.target].x < 0

\* the anchor offset the claim gives for node n and the column col of the edge
RowCenter(index) == headerH + padding + index * rowH + rowH \div 2

AnchorAsSpecified(n, col, offset) ==
  IF n.kind = "table"
  THEN LET cols == n.table.columns
           at == {i \in DOMAIN cols : cols[i] = col}
       IN /\ \E index \in 0..(Max({1, Len(cols)}) - 1) : offset = RowCenter(index)
          /\ (col # UNDEF /\ at # {}) => offset = RowCenter(Min(at) - 1)
          /\ col = UNDEF => offset = RowCenter(Len(cols) \div 2)
  ELSE 2 * offset = nodeRect(n).h

\* C19: the anchor of a table node is the center of the row of the named
\* column, or of row floor(columnCount / 2) when no column is named, always a
\* row of the table; the anchor of another node is the center of its box.
C19_VerticalAnchor ==
  pc # "idle" =>
    /\ AnchorAsSpecified(nodes[edge.source], edge.sourceColumn,
                         startWorld.y - nodes[edge.source].y)
    /\ AnchorAsSpecified(nodes[edge.target], edge.targetColumn,
                         endWorld.y - nodes[edge.target].y)

\* an edge from the second column of NodeA, and an edge that names no column
\* into an enum card
C19_Witness ==
  /\ pc = "done"
  /\ \/ edge.sourceColumn = "x"
     \/ edge.targetColumn = UNDEF /\ nodes[edge.target].kind = "enum"

\* C20: the label sits at the midpoint of the first longest segment of the
\* emitted path, displaced by exactly 10 units at a right angle to it.
C20_LabelPlacement ==
  pc = "done" =>
    /\ ~labelPos.nan
    /\ Len(pts) >= 2
    /\ \E i \in 1..(Len(pts) - 1) :
         /\ \A j \in 1..(Len(pts) - 1) : SegLen2(pts, j) <= SegLen2(pts, i)
         /\ \A j \in 1..(i - 1) : SegLen2(pts, j) < SegLen2(pts, i)
         /\ labelPos.mid2 = Pt(pts[i].x + pts[i + 1].x, pts[i].y + pts[i + 1].y)
         /\ labelPos.off.x * (pts[i + 1].x - pts[i].x)
              + labelPos.off.y * (pts[i + 1].y - pts[i].y) = 0
         /\ labelPos.off.x * labelPos.off.x + labelPos.off.y * labelPos.off.y
              = 100 * labelPos.den2

\* C15: the values of the extracted enum are exactly the literals of the value
\* list, in order, with each doubled quote read as one quote and every other
\* character kept.
C15_EnumValuesAreTheLiterals ==
  enumSql # <<>> => enums = <<[name |-> "t", values |-> enumLits]>>

C21_ArrowheadGeometry ==
  LET n == Len(arrowPts)
      degenerate == n < 2 \/ arrowPts[n] = arrowPts[n - 1]
  IN /\ head.none <=> degenerate
     /\ ~degenerate =>
          LET dx == arrowPts[n].x - arrowPts[n - 1].x
              dy == arrowPts[n].y - arrowPts[n - 1].y
              len2 == dx * dx + dy * dy
              Along(v) == v.x * dx + v.y * dy
              Across(v) == v.y * dx - v.x * dy
          IN /\ head.tip = arrowPts[n]
             /\ head.len2 = len2
             /\ Along(head.a) = (0 - 10) * len2
             /\ Along(head.b) = (0 - 10) * len2
             /\ Across(head.a) = 6 * len2
             /\ Across(head.b) = (0 - 6) * len2

\* C21 witness: a three-point path ending in a slanted segment has an arrowhead
C21_Witness ==
  /\ Len(arrowPts) = 3
  /\ arrowPts[3].x # arrowPts[2].x /\ arrowPts[3].y # arrowPts[2].y
  /\ ~head.none
  /\ head.a # head.b

\* the quoting after the characters text[from..j] have been read, none at from:
\* a single quote outside double quotes opens or closes a single-quoted span,
\* a double quote outside single quotes a double-quoted one
RECURSIVE QuoteState(_, _, _)
QuoteState(text, from, j) ==
  IF j < from THEN "none"
  ELSE LET sofar == QuoteState(text, from, j - 1)
       IN IF text[j] = "'" /\ sofar # "double"
          THEN (IF sofar = "single" THEN "none" ELSE "single")
          ELSE IF text[j] = "\"" /\ sofar # "single"
          THEN (IF sofar = "double" THEN "none" ELSE "double")
          ELSE sofar

\* opening minus closing parentheses outside quoted spans among text[from..j]
Balance(text, from, j) ==
  Cardinality({i \in from..j : text[i] = "(" /\ QuoteState(text, from, i) = "none"})
    - Cardinality({i \in from..j : text[i] = ")" /\ QuoteState(text, from, i) = "none"})

\* the closing parenthesis of the body opened at position opening; 0: none
CloseOf(text, opening) ==
  LET closes == {j \in (opening + 1)..Len(text) : Balance(text, opening + 1, j) = 0 - 1}
  IN IF closes = {} THEN 0 ELSE Min(closes)

\* the blocks of the table definitions found from position i on, up to the
\* first definition that lacks a parenthesized body
RECURSIVE ExpectedBlocks(_, _)
ExpectedBlocks(text, i) ==
  LET keywords == {j \in i..(Len(text) - 2) : text[j] = "create" /\ text[j + 1] = "table"}
  IN IF keywords = {} THEN <<>>
     ELSE LET at == Min(keywords)
              opens == {j \in (at + 3)..Len(text) : text[j] = "("}
          IN IF opens = {} \/ CloseOf(text, Min(opens)) = 0 THEN <<>>
             ELSE LET opening == Min(opens)
                      closing == CloseOf(text, opening)
                  IN <<[name |-> text[at + 2],
                        body |-> SubSeq(text, opening + 1, closing - 1)]>>
                       \o ExpectedBlocks(text, closing + 1)

\* C22: the body captured for a table definition is exactly the text between
\* its opening parenthesis and the closing parenthesis at which the depth
\* returns to zero, parentheses inside quoted spans not counting; the scan for
\* the next table resumes after that parenthesis, and the scan position
\* strictly increases on every iteration of the loop.
C22_BlockBodyCapture ==
  /\ scanPrevI < scanI
  /\ scanPc \in {"done", "split"} =>
       LET expected == ExpectedBlocks(scanText, 1)
       IN /\ Len(scanOut) >= Len(expected)
          /\ SubSeq(scanOut, 1, Len(expected)) = expected

\* C22 witness: two tables were captured, the first with a parenthesis inside
\* quotes in its body
C22_Witness ==
  /\ scanPc = "done"
  /\ Len(scanOut) = 2
  /\ scanOut[1].body = scanBody
  /\ \E j \in DOMAIN scanBody :
       scanBody[j] \in {"(", ")"} /\ QuoteState(scanBody, 1, j) # "none"

\* the pairs of matching parentheses of a body, quoted ones aside
ParenPairs(body) ==
  {pr \in (DOMAIN body) \X (DOMAIN body) :
     /\ body[pr[1]] = "(" /\ QuoteState(body, 1, pr[1]) = "none"
     /\ pr[2] = CloseOf(body, pr[1])}

\* every quoted span of the body is closed and every parenthesis outside
\* quotes has its partner
ClosedBody(body) ==
  /\ QuoteState(body, 1, Len(body)) = "none"
  /\ \A j \in DOMAIN body :
       (body[j] \in {"(", ")"} /\ QuoteState(body, 1, j) = "none")
         => \E pr \in ParenPairs(body) : j \in {pr[1], pr[2]}

\* the commas outside every parenthesis pair and every quoted span
TopLevelCommas(body) ==
  {j \in DOMAIN body :
     /\ body[j] = ","
     /\ QuoteState(body, 1, j) = "none"
     /\ ~\E pr \in ParenPairs(body) : pr[1] < j /\ j < pr[2]}

\* the pieces of the body between the cuts, trimmed, the empty ones left out
ExpectedItems(body) ==
  LET cuts == TopLevelCommas(body)
      Starts == {1} \cup {c + 1 : c \in cuts}
      EndOf(st) == Min({c \in cuts \cup {Len(body) + 1} : c >= st}) - 1
      RECURSIVE Pieces(_)
      Pieces(S) ==
        IF S = {} THEN <<>>
        ELSE <<trim(SubSeq(body, Min(S), EndOf(Min(S))))>> \o Pieces(S \ {Min(S)})
  IN SelectSeq(Pieces(Starts), LAMBDA piece : piece # <<>>)

\* C23: splitTopLevelComma cuts a body at exactly the commas outside every
\* parenthesis pair and every quoted span; the items are the trimmed non-empty
\* pieces in source order.
C23_ItemSplitting ==
  scanPc = "split" =>
    \A b \in DOMAIN scanOut :
      ClosedBody(scanOut[b].body) => scanItems[b] = ExpectedItems(scanOut[b].body)

\* C23 witness: a body with a comma that cuts and a comma that does not
C23_Witness ==
  /\ scanPc = "split"
  /\ \E b \in DOMAIN scanOut :
       LET body == scanOut[b].body
       IN /\ ClosedBody(body)
          /\ TopLevelCommas(body) # {}
          /\ \E j \in DOMAIN body : body[j] = "," /\ j \notin TopLevelCommas(body)
          /\ Len(scanItems[b]) >= 1

\* no two columns of one table of the graph share a name
UniqueColumns ==
  \A t \in DOMAIN graph.tables :
    \A i, j \in DOMAIN graph.tables[t].columns :
      graph.tables[t].columns[i].name = graph.tables[t].columns[j].name => i = j

\* no two tables of the graph share a name
UniqueTables ==
  \A i, j \in DOMAIN graph.tables : graph.tables[i].name = graph.tables[j].name => i = j

\* C24: for every relation of the returned graph whose fromColumn names a
\* column of fromTable, that column has isForeignKey = true and its fkTo holds
\* the relation's toTable and resolved toColumn.  Stated for graphs whose
\* table and column names are unique.
C24_RelationsMarkTheirColumn ==
  (UniqueTables /\ UniqueColumns) =>
    \A r \in DOMAIN graph.relations :
      \A t \in DOMAIN graph.tables :
        \A c \in DOMAIN graph.tables[t].columns :
          LET rel == graph.relations[r]
              col == graph.tables[t].columns[c]
          IN (graph.tables[t].name = rel.fromTable /\ col.name = rel.fromColumn) =>
               /\ col.isForeignKey
               /\ col.fkTo = [table |-> rel.toTable, column |-> rel.toColumn]

\* the least number of moves from the cells of frontier to goal over unblocked
\* cells of the window w, d moves having been made; -1: goal is out of reach
RECURSIVE ShortestFrom(_, _, _, _, _)
ShortestFrom(frontier, seen, d, goal, w) ==
  IF goal \in frontier THEN d
  ELSE IF frontier = {} THEN 0 - 1
  ELSE LET step1 == UNION {Range(neighbors(c, ROUTE_GRID)) : c \in frontier}
           fresh == {nb \in step1 : nb \notin seen /\ FreeIn(nb, w)}
       IN ShortestFrom(fresh, seen \cup fresh, d + 1, goal, w)

\* C28: a path returned by routeManhattanAStar makes the least number of grid
\* moves from the start cell to the goal cell over all four-connected paths
\* through unblocked cells of the window.
C28_ShortestGridPath ==
  (pc = "routed" /\ route.found) =>
    Len(path) - 1 = ShortestFrom({sCell}, {sCell}, 0, gCell, Win)

\* C29: after any sequence of splitter drags leftWidth is in
\* [25, 80 - rightWidth] and rightWidth in [10, 80 - leftWidth], so the two
\* sum to at most 80 and the diagram panel is never narrower than 20 percent.
C29_PanelWidthsBounded ==
  /\ leftWidth >= 25 /\ leftWidth <= 80 - rightWidth
  /\ rightWidth >= 10 /\ rightWidth <= 80 - leftWidth
  /\ middleWidth >= 20

\* C25: when the text changes and the graph is rebuilt, every node whose id
\* exists before and after the rebuild keeps the position it had before,
\* whether or not a node was dragged since the previous rebuild.
C25_NodesStableAcrossRebuilds ==
  lastStep = "edit" =>
    \A i \in DOMAIN diagramNodes, j \in DOMAIN before.nodes :
      diagramNodes[i].id = before.nodes[j].id =>
        /\ diagramNodes[i].x = before.nodes[j].x
        /\ diagramNodes[i].y = before.nodes[j].y

\* the position the layout engine gives node i of the graph shown
EnginePosition(i) ==
  LET laid == DiagramNodes(graph, <<>>) IN Pt(laid[i].x, laid[i].y)

\* C26: on every rebuild a node whose id is a key of the position cache is
\* placed at the cached x, y, every other node at the layout engine's
\* position, and the rebuild leaves the cache as it was.
C26_CachedPositionsAreKept ==
  /\ (lastStep \in {"mount", "edit"} \/ (lastStep = "imported" /\ before.sql # sql)) =>
       \A i \in DOMAIN diagramNodes :
         IF diagramNodes[i].id \in DOMAIN positionsRef
         THEN Pt(diagramNodes[i].x, diagramNodes[i].y) = positionsRef[diagramNodes[i].id]
         ELSE Pt(diagramNodes[i].x, diagramNodes[i].y) = EnginePosition(i)
  /\ lastStep = "edit" => positionsRef = before.positions
  /\ lastStep = "mount" => positionsRef = <<>>
  /\ lastStep = "imported" => positionsRef = recordToMap(lastFile.positions)

\* C26 witness: a rebuild after a text change shows a cached node away from
\* where the layout engine would put it, next to a node that is not cached
C26_Witness ==
  /\ lastStep = "edit"
  /\ \E i \in DOMAIN diagramNodes :
       /\ diagramNodes[i].id \in DOMAIN positionsRef
       /\ Pt(diagramNodes[i].x, diagramNodes[i].y) # EnginePosition(i)
  /\ \E i \in DOMAIN diagramNodes : diagramNodes[i].id \notin DOMAIN positionsRef

\* C27: after importBp accepts a file, every displayed node whose id is a key
\* of the file's positions is shown at the file's x, y, also when the file's
\* text equals the text already loaded.
C27_ImportedPositionsApply ==
  lastStep = "imported" =>
    \A i \in DOMAIN diagramNodes :
      diagramNodes[i].id \in DOMAIN lastFile.positions =>
        Pt(diagramNodes[i].x, diagramNodes[i].y) = lastFile.positions[diagramNodes[i].id]

\* C30: the file written by exportBp is accepted by importBp, and after the
\* import the text, the position cache and the viewport are the exported
\* ones; a rejected file leaves text, cache and viewport unchanged.
C30_ExportImportRoundTrip ==
  /\ (lastStep \in {"imported", "rejected"} /\ lastFile = bpFile /\ bpFile.version = 1) =>
       /\ lastStep = "imported"
       /\ sql = bpFile.sql
       /\ positionsRef = bpFile.positions
       /\ viewportRef = bpFile.viewport
  /\ lastStep = "rejected" =>
       /\ sql = before.sql
       /\ positionsRef = before.positions
       /\ viewportRef = before.viewport

====
